---- MODULE Spec2Model ----
(***************************************************************************)
(* Model of internal/application/command.go of device-sdk-go: the command  *)
(* handler (CommandHandler), the four CommandProcessor paths and the value *)
(* codec createCommandValueFromDeviceResource.                             *)
(*                                                                         *)
(* A text (Go string) is a sequence of one-character strings, so that the  *)
(* parsers below work on characters.  Nil is Go's nil.                     *)
(***************************************************************************)
EXTENDS Integers, Sequences, FiniteSets, TLC

Nil == "nil"

(***************************************************************************)
(* Sample texts.                                                           *)
(***************************************************************************)
T_empty == << >>
T_true == <<"t","r","u","e">>
T_false == <<"f","a","l","s","e">>
T_maybe == <<"m","a","y","b","e">>
T_5 == <<"5">>
T_7 == <<"7">>
T_15 == <<"1","5">>
T_300 == <<"3","0","0">>
T_m2 == <<"-","2">>
T_1p5 == <<"1",".","5">>
T_1p5x == <<"1",".","5","x">>
T_zz == <<"z","z">>
T_9e38 == <<"9","e","3","8">>
T_3e38 == <<"3","e","3","8">>
T_1e39 == <<"1","e","3","9">>
T_1e309 == <<"1","e","3","0","9">>
T_m1e309 == <<"-","1","e","3","0","9">>
T_0e999 == <<"0","e","9","9","9">>
T_NaN == <<"N","a","N">>
T_Inf == <<"I","n","f">>
T_AAAA == <<"A","A","A","A">>
\* base64 of 3f 80 00 00 (float32 1.0)
T_b64f32one == <<"P","4","A","A","A","A","=","=">>
\* base64 of 7f c0 00 00 (float32 NaN)
T_b64f32nan == <<"f","8","A","A","A","A","=","=">>
\* base64 of 3f f0 00 00 00 00 00 00 (float64 1.0)
T_b64f64one == <<"P","/","A","A","A","A","A","A","A","A","A","=">>
\* base64 of 7f f8 00 00 00 00 00 00 (float64 NaN)
T_b64f64nan == <<"f","/","g","A","A","A","A","A","A","A","A","=">>
\* base64 with a misplaced padding character
T_b64bad == <<"P","4","=","A">>

\* integers at the edges of the 8, 16, 32 and 64-bit ranges
T_0 == <<"0">>
T_007 == <<"0","0","7">>
T_m0 == <<"-","0">>
T_p5 == <<"+","5">>
T_m5 == <<"-","5">>
T_127 == <<"1","2","7">>
T_128 == <<"1","2","8">>
T_m128 == <<"-","1","2","8">>
T_m129 == <<"-","1","2","9">>
T_255 == <<"2","5","5">>
T_256 == <<"2","5","6">>
T_32767 == <<"3","2","7","6","7">>
T_32768 == <<"3","2","7","6","8">>
T_m32768 == <<"-","3","2","7","6","8">>
T_m32769 == <<"-","3","2","7","6","9">>
T_65535 == <<"6","5","5","3","5">>
T_65536 == <<"6","5","5","3","6">>
T_2147483647 == <<"2","1","4","7","4","8","3","6","4","7">>
T_2147483648 == <<"2","1","4","7","4","8","3","6","4","8">>
T_m2147483648 == <<"-","2","1","4","7","4","8","3","6","4","8">>
T_m2147483649 == <<"-","2","1","4","7","4","8","3","6","4","9">>
T_4294967295 == <<"4","2","9","4","9","6","7","2","9","5">>
T_4294967296 == <<"4","2","9","4","9","6","7","2","9","6">>
T_9223372036854775807 == <<"9","2","2","3","3","7","2","0","3","6","8","5","4","7","7","5","8","0","7">>
T_9223372036854775808 == <<"9","2","2","3","3","7","2","0","3","6","8","5","4","7","7","5","8","0","8">>
T_m9223372036854775808 == <<"-","9","2","2","3","3","7","2","0","3","6","8","5","4","7","7","5","8","0","8">>
T_m9223372036854775809 == <<"-","9","2","2","3","3","7","2","0","3","6","8","5","4","7","7","5","8","0","9">>
T_18446744073709551615 == <<"1","8","4","4","6","7","4","4","0","7","3","7","0","9","5","5","1","6","1","5">>
T_18446744073709551616 == <<"1","8","4","4","6","7","4","4","0","7","3","7","0","9","5","5","1","6","1","6">>

IntegerTexts ==
  { T_0, T_007, T_m0, T_p5, T_m5, T_127, T_128, T_m128, T_m129, T_255,
    T_256, T_32767, T_32768, T_m32768, T_m32769, T_65535, T_65536,
    T_2147483647, T_2147483648, T_m2147483648, T_m2147483649, T_4294967295,
    T_4294967296, T_9223372036854775807, T_9223372036854775808,
    T_m9223372036854775808, T_m9223372036854775809, T_18446744073709551615,
    T_18446744073709551616 }

Texts ==
  { T_empty, T_true, T_false, T_maybe, T_5, T_7, T_15, T_300, T_m2, T_1p5,
    T_1p5x, T_zz, T_9e38, T_3e38, T_1e39, T_1e309, T_m1e309, T_0e999, T_NaN,
    T_Inf, T_AAAA, T_b64f32one, T_b64f32nan, T_b64f64one, T_b64f64nan,
    T_b64bad }
  \cup IntegerTexts

(***************************************************************************)
(* Library functions the codec calls, by what they do on a text.           *)
(***************************************************************************)
Digits == <<"0","1","2","3","4","5","6","7","8","9">>

IsDigit(c) == \E i \in 1..10 : Digits[i] = c

DigitVal(c) == (CHOOSE i \in 1..10 : Digits[i] = c) - 1

AllDigits(t) == \A i \in 1..Len(t) : IsDigit(t[i])

\* the text without its leading "0" characters
RECURSIVE StripZeros(_)
StripZeros(t) ==
  IF t # << >> /\ Head(t) = "0" THEN StripZeros(Tail(t)) ELSE t

\* the number a short digit text denotes
RECURSIVE DecValue(_)
DecValue(t) ==
  IF t = << >> THEN 0 ELSE 10 * DecValue(SubSeq(t, 1, Len(t) - 1)) + DigitVal(t[Len(t)])

\* longest digit texts whose value is computed
MaxDigits == 8

\* strconv.ParseBool
ParseBool(t) ==
  IF t \in { <<"1">>, <<"t">>, <<"T">>, <<"T","R","U","E">>, T_true, <<"T","r","u","e">> }
  THEN [ok |-> TRUE, val |-> TRUE]
  ELSE IF t \in { <<"0">>, <<"f">>, <<"F">>, <<"F","A","L","S","E">>, T_false,
                  <<"F","a","l","s","e">> }
  THEN [ok |-> TRUE, val |-> FALSE]
  ELSE [ok |-> FALSE, val |-> FALSE]

\* A natural number is kept as its decimal digits without leading zeros
\* (zero is the empty text), so that 64-bit quantities are exact.
DigitOf(n) == Digits[n + 1]

RECURSIVE LexLess(_, _)
LexLess(a, b) ==
  IF a = << >> THEN FALSE
  ELSE IF DigitVal(Head(a)) < DigitVal(Head(b)) THEN TRUE
  ELSE IF DigitVal(Head(a)) > DigitVal(Head(b)) THEN FALSE
  ELSE LexLess(Tail(a), Tail(b))

\* a < b
NatLess(a, b) == Len(a) < Len(b) \/ (Len(a) = Len(b) /\ LexLess(a, b))

\* the digit of b that stands j places from its right end (1 is the last)
DigitFromRight(b, j) == IF j <= Len(b) THEN DigitVal(b[Len(b) - j + 1]) ELSE 0

\* the digits of a - b from the j-th place from the right leftwards, with a
\* borrow coming in, for a >= b
RECURSIVE SubFrom(_, _, _, _)
SubFrom(a, b, j, borrow) ==
  IF j > Len(a) THEN << >>
  ELSE Append(SubFrom(a, b, j + 1,
                      IF DigitFromRight(a, j) - borrow - DigitFromRight(b, j) < 0
                      THEN 1 ELSE 0),
              DigitOf((DigitFromRight(a, j) - borrow - DigitFromRight(b, j) + 10) % 10))

\* a - b for a >= b
NatSub(a, b) == StripZeros(SubFrom(a, b, 1, 0))

\* x mod m for x < 10 * m
RECURSIVE Reduce(_, _)
Reduce(x, m) ==
  IF NatLess(x, m) THEN x
  ELSE CHOOSE y \in { Reduce(z, m) : z \in { NatSub(x, m) } } : TRUE

\* the first i digits of d, mod m (long division)
RECURSIVE NatModAt(_, _, _)
NatModAt(d, i, m) ==
  IF i = 0 THEN << >>
  ELSE CHOOSE y \in { Reduce(StripZeros(Append(r, d[i])), m) :
                        r \in { NatModAt(d, i - 1, m) } } : TRUE

\* 1 << k for the shifts the integer cases make
Pow2(k) ==
  CASE k = 7 -> <<"1","2","8">>
    [] k = 8 -> <<"2","5","6">>
    [] k = 15 -> <<"3","2","7","6","8">>
    [] k = 16 -> <<"6","5","5","3","6">>
    [] k = 31 -> <<"2","1","4","7","4","8","3","6","4","8">>
    [] k = 32 -> <<"4","2","9","4","9","6","7","2","9","6">>
    [] k = 63 -> <<"9","2","2","3","3","7","2","0","3","6","8","5","4","7","7","5","8","0","8">>
    [] k = 64 -> <<"1","8","4","4","6","7","4","4","0","7","3","7","0","9","5","5","1","6","1","6">>

\* the low `bits` bits of n
LowBits(n, bits) == NatModAt(n, Len(n), Pow2(bits))

\* an integer: sign and magnitude (zero is not negative)
IntValue(neg, mag) == [neg |-> neg /\ mag # << >>, mag |-> mag]

\* the conversions uint8(n), uint16(n), uint32(n) of a uint64
CastUint(n, bits) == IntValue(FALSE, LowBits(n.mag, bits))

\* the low `bits` bits of an int64 in two's complement
LowBitsSigned(n, bits) ==
  IF n.neg /\ LowBits(n.mag, bits) # << >>
  THEN NatSub(Pow2(bits), LowBits(n.mag, bits))
  ELSE LowBits(n.mag, bits)

\* low bits read as a signed integer of that width
SignedOfBits(low, bits) ==
  IF NatLess(low, Pow2(bits - 1)) THEN IntValue(FALSE, low)
  ELSE IntValue(TRUE, NatSub(Pow2(bits), low))

\* the conversions int8(n), int16(n), int32(n) of an int64
CastInt(n, bits) == SignedOfBits(LowBitsSigned(n, bits), bits)

UintOfDigits(s, bitSize) ==
  IF ~NatLess(s, Pow2(bitSize))
  THEN [res |-> "range", val |-> IntValue(FALSE, << >>)]
  ELSE [res |-> "ok", val |-> IntValue(FALSE, s)]

\* strconv.ParseUint(t, 10, bitSize): "ok", "syntax" or "range"
ParseUint(t, bitSize) ==
  IF t = << >> \/ ~AllDigits(t) THEN [res |-> "syntax", val |-> IntValue(FALSE, << >>)]
  ELSE UintOfDigits(StripZeros(t), bitSize)

\* un: the magnitude as ParseUint read it; the cutoff is 1 << (bitSize - 1)
IntOfMagnitude(un, neg, bitSize) ==
  IF un.res # "ok" THEN un
  ELSE IF ~neg /\ ~NatLess(un.val.mag, Pow2(bitSize - 1))
  THEN [res |-> "range", val |-> IntValue(FALSE, << >>)]
  ELSE IF neg /\ NatLess(Pow2(bitSize - 1), un.val.mag)
  THEN [res |-> "range", val |-> IntValue(FALSE, << >>)]
  ELSE [res |-> "ok", val |-> IntValue(neg, un.val.mag)]

Lower(c) ==
  CASE c = "I" -> "i" [] c = "N" -> "n" [] c = "F" -> "f" [] c = "A" -> "a"
    [] c = "T" -> "t" [] c = "Y" -> "y" [] OTHER -> c

LowerText(t) == [i \in 1..Len(t) |-> Lower(t[i])]

Unsigned(t) == IF t # << >> /\ Head(t) \in {"+", "-"} THEN Tail(t) ELSE t

Negative(t) == t # << >> /\ Head(t) = "-"

\* a faulty call: the text is read as a 64-bit integer whatever the kind's width
ParseIntAs64(t, bitSize) ==
  IF t = << >> THEN [res |-> "syntax", val |-> IntValue(FALSE, << >>)]
  ELSE IntOfMagnitude(ParseUint(Unsigned(t), 64), Negative(t), 64)

\* strconv.ParseInt(t, 10, bitSize): an optional sign, then the digits
ParseInt(t, bitSize) ==
  IF t = << >> THEN [res |-> "syntax", val |-> IntValue(FALSE, << >>)]
  ELSE IntOfMagnitude(ParseUint(Unsigned(t), 64), Negative(t), bitSize)

\* position of the first character of t that is in cs, or 0
FirstOf(t, cs) ==
  IF \E i \in 1..Len(t) : t[i] \in cs
  THEN CHOOSE i \in 1..Len(t) : t[i] \in cs /\ \A j \in 1..(i - 1) : t[j] \notin cs
  ELSE 0

\* lexicographic d >= th of two digit texts read as fractions 0.d and 0.th;
\* th is a prefix of an expansion with further non-zero digits
RECURSIVE FracGeq(_, _)
FracGeq(d, th) ==
  IF th = << >> THEN d # << >>
  ELSE IF d = << >> THEN FALSE
  ELSE IF DigitVal(Head(d)) > DigitVal(Head(th)) THEN TRUE
  ELSE IF DigitVal(Head(d)) < DigitVal(Head(th)) THEN FALSE
  ELSE FracGeq(Tail(d), Tail(th))

\* 2^128 - 2^103 = 0.340282356779733661637e39: the least magnitude that rounds
\* out of float32; 2^1024 - 2^970 = 0.179769313486231580793e309 for float64
OverflowDigits(bitSize) ==
  IF bitSize = 32
  THEN <<"3","4","0","2","8","2","3","5","6","7","7","9","7","3","3","6","6","1","6","3","7">>
  ELSE <<"1","7","9","7","6","9","3","1","3","4","8","6","2","3","1","5","8","0","7","9","3">>

OverflowOrder(bitSize) == IF bitSize = 32 THEN 39 ELSE 309

\* strconv.ParseFloat(t, bitSize) on the decimal grammar
\* [sign] digits [. digits] [e [sign] digits] and on the special values:
\* res is "ok", "syntax" or "range"; val a decimal (sign, digits 0.d, order),
\* an infinity or a NaN.  The steps, last first.
FloatInRange(d, order, sign, bitSize) ==
  IF \/ order > OverflowOrder(bitSize)
     \/ order = OverflowOrder(bitSize) /\ FracGeq(d, OverflowDigits(bitSize))
  THEN [res |-> "range", val |-> [inf |-> sign]]
  ELSE [res |-> "ok", val |-> [sign |-> sign, digits |-> d, order |-> order]]

\* d: the digits without leading zeros, nfrac of them after the point
FloatOfDigits(d, nfrac, e, sign, bitSize) ==
  IF d = << >> THEN [res |-> "ok", val |-> [sign |-> sign, digits |-> << >>, order |-> 0]]
  ELSE FloatInRange(d, Len(d) + e - nfrac, sign, bitSize)

FloatOfParts(ip, fp, expd, expSign, sign, bitSize) ==
  IF ~(/\ AllDigits(ip) /\ AllDigits(fp) /\ Len(ip) + Len(fp) > 0
       /\ expd # << >> /\ AllDigits(expd) /\ Len(StripZeros(expd)) <= MaxDigits)
  THEN [res |-> "syntax", val |-> Nil]
  ELSE FloatOfDigits(StripZeros(ip \o fp), Len(fp),
                     expSign * DecValue(StripZeros(expd)), sign, bitSize)

FloatOfMantissa(mant, dot, expo, sign, bitSize) ==
  FloatOfParts(IF dot = 0 THEN mant ELSE SubSeq(mant, 1, dot - 1),
               IF dot = 0 THEN << >> ELSE SubSeq(mant, dot + 1, Len(mant)),
               Unsigned(expo), IF Negative(expo) THEN -1 ELSE 1, sign, bitSize)

FloatOfDecimal(u, epos, sign, bitSize) ==
  FloatOfMantissa(IF epos = 0 THEN u ELSE SubSeq(u, 1, epos - 1),
                  FirstOf(IF epos = 0 THEN u ELSE SubSeq(u, 1, epos - 1), {"."}),
                  IF epos = 0 THEN <<"0">> ELSE SubSeq(u, epos + 1, Len(u)),
                  sign, bitSize)

\* u: the text without its sign; lu: u in lower case
FloatOfUnsigned(u, lu, hasSign, sign, bitSize) ==
  IF lu = <<"n","a","n">> /\ ~hasSign THEN [res |-> "ok", val |-> [nan |-> TRUE]]
  ELSE IF lu \in { <<"i","n","f">>, <<"i","n","f","i","n","i","t","y">> }
  THEN [res |-> "ok", val |-> [inf |-> sign]]
  ELSE FloatOfDecimal(u, FirstOf(u, {"e", "E"}), sign, bitSize)

ParseFloat(t, bitSize) ==
  FloatOfUnsigned(Unsigned(t), LowerText(Unsigned(t)), Unsigned(t) # t,
                  IF Negative(t) THEN -1 ELSE 1, bitSize)

B64Alphabet ==
  <<"A","B","C","D","E","F","G","H","I","J","K","L","M","N","O","P","Q","R","S","T",
    "U","V","W","X","Y","Z","a","b","c","d","e","f","g","h","i","j","k","l","m","n",
    "o","p","q","r","s","t","u","v","w","x","y","z","0","1","2","3","4","5","6","7",
    "8","9","+","/">>

IsB64(c) == \E i \in 1..64 : B64Alphabet[i] = c

B64Val(c) == (CHOOSE i \in 1..64 : B64Alphabet[i] = c) - 1

\* the bytes of one group of four characters; the last group may be padded
B64Group(g, last) ==
  LET v(n) == IF n <= 4 /\ IsB64(g[n]) THEN B64Val(g[n]) ELSE 0
      w == v(1) * 262144 + v(2) * 4096 + v(3) * 64 + v(4)
      b1 == w \div 65536
      b2 == (w \div 256) % 256
      b3 == w % 256
  IN
  IF \A n \in 1..4 : IsB64(g[n]) THEN [ok |-> TRUE, bytes |-> <<b1, b2, b3>>]
  ELSE IF last /\ IsB64(g[1]) /\ IsB64(g[2]) /\ IsB64(g[3]) /\ g[4] = "="
  THEN [ok |-> TRUE, bytes |-> <<b1, b2>>]
  ELSE IF last /\ IsB64(g[1]) /\ IsB64(g[2]) /\ g[3] = "=" /\ g[4] = "="
  THEN [ok |-> TRUE, bytes |-> <<b1>>]
  ELSE [ok |-> FALSE, bytes |-> << >>]

B64Join(g, rest) ==
  IF g.ok /\ rest.ok THEN [ok |-> TRUE, bytes |-> g.bytes \o rest.bytes]
  ELSE [ok |-> FALSE, bytes |-> << >>]

\* base64.StdEncoding.DecodeString
RECURSIVE DecodeString(_)
DecodeString(t) ==
  IF t = << >> THEN [ok |-> TRUE, bytes |-> << >>]
  ELSE IF Len(t) < 4 THEN [ok |-> FALSE, bytes |-> << >>]
  ELSE B64Join(B64Group(SubSeq(t, 1, 4), Len(t) = 4), DecodeString(SubSeq(t, 5, Len(t))))

\* binary.Read of a big-endian float of `width` bytes: the first `width` bytes
\* are the value, fewer bytes are an error
floatFromBytes(numericValue, width) ==
  IF Len(numericValue) < width THEN [ok |-> FALSE, bits |-> << >>]
  ELSE [ok |-> TRUE, bits |-> SubSeq(numericValue, 1, width)]

float32FromBytes(numericValue) == floatFromBytes(numericValue, 4)

float64FromBytes(numericValue) == floatFromBytes(numericValue, 8)

AllZero(s) == \A i \in 1..Len(s) : s[i] = 0

\* math.IsNaN of the float with these big-endian bytes
IsNaNBits(bits) ==
  IF Len(bits) = 4
  THEN /\ bits[1] % 128 = 127 /\ bits[2] >= 128
       /\ ~(bits[2] % 128 = 0 /\ AllZero(SubSeq(bits, 3, 4)))
  ELSE /\ bits[1] % 128 = 127 /\ bits[2] \div 16 = 15
       /\ ~(bits[2] % 16 = 0 /\ AllZero(SubSeq(bits, 3, 8)))

(***************************************************************************)
(* Value Codec: createCommandValueFromDeviceResource.                      *)
(***************************************************************************)
\* a nil error and a nil *CommandValue
NoError == [kind |-> "nil", msg |-> ""]

NilValue == [DeviceResourceName |-> "", Type |-> "nil", Value |-> << >>]

IsNilValue(cv) == cv.Type = "nil"

NewCommonEdgeX(kind, msg) == [kind |-> kind, msg |-> msg]

\* dsModels.NewCommandValue for a value of the kind's own representation
NewCommandValue(name, valueType, value) ==
  [DeviceResourceName |-> name, Type |-> valueType, Value |-> value]

\* the error the function returns after a case that ended by `break` or by
\* falling out of the switch: line 646 returns the err declared at line 419,
\* which a case that declares its own err (`x, err := ...`) never assigns
FunctionErr(caseErr) == NoError

\* the binary fallback: fb is the float read from the decoded bytes
FloatFallback(dr, fb) ==
  IF ~fb.ok
  THEN [result |-> NilValue, caseErr |-> NewCommonEdgeX("EOF", "binary.Read")]
  ELSE IF IsNaNBits(fb.bits)
  THEN [result |-> NilValue, caseErr |-> NewCommonEdgeX("error", "unexpected result NaN")]
  ELSE [result |-> NewCommandValue(dr.Name, dr.ValueType, [bits |-> fb.bits]),
        caseErr |-> NoError]

\* the Float32 and Float64 cases: the result, and the err variable that
\* `val, err := strconv.ParseFloat(...)` declares in the scope of the case;
\* pf is ParseFloat's answer, dec DecodeString's
FloatCase(dr, pf, dec, width) ==
  IF pf.res = "ok"
  THEN [result |-> NewCommandValue(dr.Name, dr.ValueType, pf.val), caseErr |-> NoError]
  ELSE IF pf.res = "range"
  THEN [result |-> NilValue, caseErr |-> NewCommonEdgeX("ServerError", "NumError")]
  ELSE IF ~dec.ok
  THEN [result |-> NilValue, caseErr |-> NewCommonEdgeX("CorruptInputError", "base64")]
  ELSE FloatFallback(dr, floatFromBytes(dec.bytes, width))

FloatReturn(fc) == [result |-> fc.result, err |-> FunctionErr(fc.caseErr)]

ConvertFailed == NewCommonEdgeX("ServerError", "failed to convert set parameter")

BoolCase(dr, pb) ==
  IF ~pb.ok THEN [result |-> NilValue, err |-> ConvertFailed]
  ELSE [result |-> NewCommandValue(dr.Name, "Bool", pb.val), err |-> NoError]

\* the unsigned cases: pu is ParseUint's answer for the kind's width; the
\* 64-bit case passes n on without a conversion
UintCase(dr, pu, bitSize) ==
  IF pu.res # "ok" THEN [result |-> NilValue, err |-> ConvertFailed]
  ELSE [result |-> NewCommandValue(dr.Name, dr.ValueType,
                     IF bitSize = 64 THEN pu.val ELSE CastUint(pu.val, bitSize)),
        err |-> NoError]

Uint8Case(dr, pu) == UintCase(dr, pu, 8)

\* the signed cases: pi is ParseInt's answer for the kind's width
IntCase(dr, pi, bitSize) ==
  IF pi.res # "ok" THEN [result |-> NilValue, err |-> ConvertFailed]
  ELSE [result |-> NewCommandValue(dr.Name, dr.ValueType,
                     IF bitSize = 64 THEN pi.val ELSE CastInt(pi.val, bitSize)),
        err |-> NoError]

createCommandValueFromDeviceResource(dr, v) ==
  CASE dr.ValueType = "String" ->
         [result |-> NewCommandValue(dr.Name, "String", v), err |-> NoError]
    [] dr.ValueType = "Bool" -> BoolCase(dr, ParseBool(v))
    [] dr.ValueType = "Uint8" -> Uint8Case(dr, ParseUint(v, 8))
    [] dr.ValueType = "Uint16" -> UintCase(dr, ParseUint(v, 16), 16)
    [] dr.ValueType = "Uint32" -> UintCase(dr, ParseUint(v, 32), 32)
    [] dr.ValueType = "Uint64" -> UintCase(dr, ParseUint(v, 64), 64)
    [] dr.ValueType = "Int8" -> IntCase(dr, ParseInt(v, 8), 8)
    [] dr.ValueType = "Int16" -> IntCase(dr, ParseInt(v, 16), 16)
    [] dr.ValueType = "Int32" -> IntCase(dr, ParseInt(v, 32), 32)
    [] dr.ValueType = "Int64" -> IntCase(dr, ParseInt(v, 64), 64)
    [] dr.ValueType = "Float32" ->
         FloatReturn(FloatCase(dr, ParseFloat(v, 32), DecodeString(v), 4))
    [] dr.ValueType = "Float64" ->
         FloatReturn(FloatCase(dr, ParseFloat(v, 64), DecodeString(v), 8))
    [] OTHER ->
         [result |-> NilValue,
          err |-> NewCommonEdgeX("ServerError", "unrecognized value type")]

CodecKinds ==
  {"String", "Bool", "Uint8", "Uint16", "Uint32", "Uint64", "Int8", "Int16", "Int32",
   "Int64", "Float32", "Float64", "Unknown"}

(***************************************************************************)
(* The collaborators' data: devices, one profile, configuration.           *)
(***************************************************************************)
T_ON == <<"O","N">>
T_OFF == <<"O","F","F">>
T_1 == <<"1">>
T_x == <<"x">>

URLRawQuery == "urlRawQuery"

NoAttributes == [k \in {} |-> ""]

\* cache.Devices(): the devices by name
Devices ==
  [ d1 |-> [Name |-> "d1", AdminState |-> "UNLOCKED", OperatingState |-> "UP"],
    d2 |-> [Name |-> "d2", AdminState |-> "UNLOCKED", OperatingState |-> "UP"],
    dLocked |-> [Name |-> "dLocked", AdminState |-> "LOCKED", OperatingState |-> "UP"],
    dDown |-> [Name |-> "dDown", AdminState |-> "UNLOCKED", OperatingState |-> "DOWN"] ]

\* the Resource Declarations of the profile
Resources ==
  [ temp |-> [Name |-> "temp", ValueType |-> "Float32", ReadWrite |-> "RW",
              DefaultValue |-> T_empty, Attributes |-> [unit |-> "C"]],
    count |-> [Name |-> "count", ValueType |-> "Uint8", ReadWrite |-> "RW",
               DefaultValue |-> T_7, Attributes |-> NoAttributes],
    switch |-> [Name |-> "switch", ValueType |-> "Bool", ReadWrite |-> "RW",
                DefaultValue |-> T_empty, Attributes |-> [pin |-> "4"]],
    serial |-> [Name |-> "serial", ValueType |-> "String", ReadWrite |-> "R",
                DefaultValue |-> T_empty, Attributes |-> NoAttributes],
    reset |-> [Name |-> "reset", ValueType |-> "Bool", ReadWrite |-> "W",
               DefaultValue |-> T_true, Attributes |-> NoAttributes],
    both |-> [Name |-> "both", ValueType |-> "String", ReadWrite |-> "RW",
              DefaultValue |-> T_empty, Attributes |-> NoAttributes] ]

NoMappings == [k \in {} |-> T_empty]

ResourceOperation(name) ==
  [DeviceResource |-> name, DefaultValue |-> T_empty, Mappings |-> NoMappings]

\* the Composite Command Declarations of the profile
Commands ==
  [ all |-> [Name |-> "all", ReadWrite |-> "RW",
             ResourceOperations |-> << ResourceOperation("count"),
               ResourceOperation("switch"), ResourceOperation("temp") >>],
    pair |-> [Name |-> "pair", ReadWrite |-> "RW",
              ResourceOperations |-> <<
                [DeviceResource |-> "count", DefaultValue |-> T_5, Mappings |-> NoMappings],
                [DeviceResource |-> "switch", DefaultValue |-> T_empty,
                 Mappings |-> (T_true :> T_ON @@ T_false :> T_OFF)] >>],
    ro |-> [Name |-> "ro", ReadWrite |-> "R",
            ResourceOperations |-> << ResourceOperation("count") >>],
    wo |-> [Name |-> "wo", ReadWrite |-> "W",
            ResourceOperations |-> <<
              [DeviceResource |-> "reset", DefaultValue |-> T_empty,
               Mappings |-> (T_1 :> T_true @@ T_true :> T_true @@ T_false :> T_OFF)] >>],
    mixed |-> [Name |-> "mixed", ReadWrite |-> "RW",
               ResourceOperations |-> << ResourceOperation("count"),
                 ResourceOperation("serial"), ResourceOperation("switch") >>],
    big |-> [Name |-> "big", ReadWrite |-> "RW",
             ResourceOperations |-> << ResourceOperation("count"),
               ResourceOperation("switch"), ResourceOperation("temp"),
               ResourceOperation("both") >>],
    ghostly |-> [Name |-> "ghostly", ReadWrite |-> "RW",
                 ResourceOperations |-> << ResourceOperation("count"),
                   ResourceOperation("ghost") >>],
    haunted |-> [Name |-> "haunted", ReadWrite |-> "RW",
                 ResourceOperations |-> << ResourceOperation("serial"),
                   ResourceOperation("ghost") >>],
    spectre |-> [Name |-> "spectre", ReadWrite |-> "RW",
                 ResourceOperations |-> << ResourceOperation("ghost"),
                   ResourceOperation("count") >>],
    both |-> [Name |-> "both", ReadWrite |-> "RW",
              ResourceOperations |-> << ResourceOperation("both") >>] ]

\* largest configured MaxCmdOps
MaxOps == 3

VARIABLES
  svcAdmin,     \* the device service's AdminState
  config,       \* Device configuration: UpdateLastConnected, DataTransform, MaxCmdOps
  cacheAttrs,   \* the profile cache's attribute map of each resource
  fatal,        \* the Go runtime has thrown (concurrent map access)
  pc,           \* each invocation's position
  inv,          \* each invocation's arguments
  loc,          \* each invocation's local variables
  hist,         \* what each invocation has done: calls made, tasks launched
  cIn, cOut     \* the codec on its own: input and output

vars == <<svcAdmin, config, cacheAttrs, fatal, pc, inv, loc, hist, cIn, cOut>>

handlerVars == <<svcAdmin, config, cacheAttrs, fatal, pc, inv, loc, hist>>

Procs == {"p1", "p2"}

SeqProcs == {"p1"}

(***************************************************************************)
(* Inputs of an invocation.                                                *)
(***************************************************************************)
NoParams == [k \in {} |-> T_empty]

\* a request body: text that is not a JSON object of strings, or an object
MalformedBody == [kind |-> "malformed", map |-> NoParams]

ObjectBody(m) == [kind |-> "object", map |-> m]

Bodies ==
  { MalformedBody,
    ObjectBody(NoParams),
    ObjectBody("count" :> T_5),
    ObjectBody("count" :> T_300),
    ObjectBody("count" :> T_5 @@ "switch" :> T_true @@ "temp" :> T_1p5),
    ObjectBody("count" :> T_5 @@ "switch" :> T_maybe @@ "temp" :> T_1p5),
    ObjectBody("count" :> T_5 @@ "switch" :> T_true @@ "temp" :> T_9e38),
    ObjectBody("count" :> T_300 @@ "switch" :> T_true @@ "temp" :> T_1p5),
    ObjectBody("temp" :> T_zz),
    ObjectBody("temp" :> T_b64f32one @@ "both" :> T_x),
    ObjectBody("switch" :> T_ON @@ "reset" :> T_true),
    ObjectBody("serial" :> T_x @@ "switch" :> T_false) }

OperationNames ==
  { "temp", "count", "switch", "serial", "reset", "both", "all", "pair", "ro",
    "wo", "mixed", "big", "ghostly", "haunted", "spectre", "nosuch" }

DeviceNames == {"d1", "dLocked", "dDown", "dNone"}

Request(isRead, sendEvent, device, cmd, body, attributes) ==
  [isRead |-> isRead, sendEvent |-> sendEvent, device |-> device, cmd |-> cmd,
   body |-> body, attributes |-> attributes]

Requests ==
  { Request(TRUE, se, d, c, MalformedBody, a) :
      se \in BOOLEAN, d \in DeviceNames, c \in OperationNames, a \in {"", "q1"} }
  \cup
  { Request(FALSE, rq[1], rq[2], rq[3], rq[4], rq[5]) :
      rq \in BOOLEAN \X DeviceNames \X OperationNames \X Bodies \X {"", "q1"} }

\* concurrent invocations: two devices of the one profile, two raw queries
ConcRequests ==
  { Request(rq[1], FALSE, rq[2], rq[3],
            ObjectBody("temp" :> T_1p5 @@ "count" :> T_5 @@ "switch" :> T_true), rq[4]) :
      rq \in BOOLEAN \X {"d1", "d2"} \X {"temp", "pair"} \X {"q1", "q2"} }

NoRequest == Request(TRUE, FALSE, "", "", MalformedBody, "")

NilEvent == [nil |-> TRUE, DeviceName |-> "", SourceName |-> ""]

InitLoc ==
  [device |-> "", path |-> "", i |-> 0, dr |-> "", paramMap |-> NoParams,
   cvs |-> << >>, reqs |-> << >>, res |-> NilEvent, err |-> NoError,
   panicking |-> FALSE]

\* decoded: the texts handed to the codec, each with the candidate text it
\* came from
\* tasks: the state of each goroutine the deferred function has started
NoTasks == [t \in {} |-> ""]

EmptyHist ==
  [log |-> << >>, decoded |-> << >>, calls |-> << >>, launched |-> {}, tasks |-> NoTasks]

Decoded(name, candidate, text) ==
  [resource |-> name, candidate |-> candidate, text |-> text]

Event(ev, arg, ok) == [ev |-> ev, arg |-> arg, ok |-> ok]

(***************************************************************************)
(* CommandHandler.                                                         *)
(***************************************************************************)
\* a faulty order of the checks: the device is looked up before the service's
\* AdminState is read
EligibilityErrorDeviceFirst(svc, deviceKey) ==
  IF deviceKey \notin DOMAIN Devices
  THEN NewCommonEdgeX("EntityDoesNotExist", "device not found")
  ELSE IF svc = "LOCKED"
  THEN NewCommonEdgeX("ServiceLocked", "service locked")
  ELSE IF Devices[deviceKey].AdminState = "LOCKED"
  THEN NewCommonEdgeX("ServiceLocked", "device locked")
  ELSE IF Devices[deviceKey].OperatingState = "DOWN"
  THEN NewCommonEdgeX("ServiceLocked", "device OperatingState is DOWN")
  ELSE NoError

\* faulty checks: the device's own AdminState and OperatingState are not read
EligibilityErrorNoDeviceState(svc, deviceKey) ==
  IF svc = "LOCKED"
  THEN NewCommonEdgeX("ServiceLocked", "service locked")
  ELSE IF deviceKey \notin DOMAIN Devices
  THEN NewCommonEdgeX("EntityDoesNotExist", "device not found")
  ELSE NoError

\* the eligibility checks, in the order of the code
EligibilityError(svc, deviceKey) ==
  IF svc = "LOCKED"
  THEN NewCommonEdgeX("ServiceLocked", "service locked")
  ELSE IF deviceKey \notin DOMAIN Devices
  THEN NewCommonEdgeX("EntityDoesNotExist", "device not found")
  ELSE IF Devices[deviceKey].AdminState = "LOCKED"
  THEN NewCommonEdgeX("ServiceLocked", "device locked")
  ELSE IF Devices[deviceKey].OperatingState = "DOWN"
  THEN NewCommonEdgeX("ServiceLocked", "device OperatingState is DOWN")
  ELSE NoError

\* a faulty choice: the name is taken as a single resource whatever the
\* command lookup found
ResolvePathResourceOnly(isRead, cmdExist) ==
  IF isRead THEN "ReadDeviceResource" ELSE "WriteDeviceResource"

\* the processor method chosen for the operation name
ResolvePath(isRead, cmdExist) ==
  IF cmdExist
  THEN (IF isRead THEN "ReadDeviceCommand" ELSE "WriteDeviceCommand")
  ELSE (IF isRead THEN "ReadDeviceResource" ELSE "WriteDeviceResource")

\* what the deferred function launches when the handler returns or panics
DeferredLaunch(err, res, sendEvent, updateLastConnected) ==
  IF err.kind # "nil" THEN {}
  ELSE (IF updateLastConnected THEN {"UpdateLastConnected"} ELSE {})
       \cup (IF ~res.nil /\ sendEvent THEN {"SendEvent"} ELSE {})

Invoke(p, rq) ==
  /\ ~fatal
  /\ pc[p] = "idle"
  /\ pc' = [pc EXCEPT ![p] = "CommandHandler"]
  /\ inv' = [inv EXCEPT ![p] = rq]
  /\ loc' = [loc EXCEPT ![p] = InitLoc]
  /\ hist' = [hist EXCEPT ![p] = EmptyHist]
  /\ UNCHANGED <<svcAdmin, config, cacheAttrs, fatal, cIn, cOut>>

\* lines 53-79: the checks, then the deferred function is registered
CommandHandler(p) ==
  /\ ~fatal
  /\ pc[p] = "CommandHandler"
  /\ LET e == EligibilityError(svcAdmin, inv[p].device) IN
     IF e.kind # "nil"
     THEN /\ loc' = [loc EXCEPT ![p].err = e]
          /\ pc' = [pc EXCEPT ![p] = "returned"]
     ELSE /\ loc' = [loc EXCEPT ![p].device = inv[p].device]
          /\ pc' = [pc EXCEPT ![p] = "resolve"]
  /\ UNCHANGED <<svcAdmin, config, cacheAttrs, fatal, inv, hist, cIn, cOut>>

\* lines 93-108
Resolve(p) ==
  /\ ~fatal
  /\ pc[p] = "resolve"
  /\ LET cmdExist == inv[p].cmd \in DOMAIN Commands
         path == ResolvePath(inv[p].isRead, cmdExist)
     IN /\ hist' = [hist EXCEPT ![p].log = Append(@, Event("DeviceCommand", inv[p].cmd, cmdExist))]
        /\ loc' = [loc EXCEPT ![p].path = path]
        /\ pc' = [pc EXCEPT ![p] = path]
  /\ UNCHANGED <<svcAdmin, config, cacheAttrs, fatal, inv, cIn, cOut>>

\* lines 79-91: the deferred function, run on return and on panic; each task
\* is started in a goroutine of its own
Deferred(p) ==
  /\ ~fatal
  /\ pc[p] = "defer"
  /\ LET launched == DeferredLaunch(loc[p].err, loc[p].res, inv[p].sendEvent,
                                    config.UpdateLastConnected)
     IN hist' = [hist EXCEPT ![p].launched = launched,
                             ![p].tasks = [t \in launched |-> "launched"]]
  /\ pc' = [pc EXCEPT ![p] = "deferred"]
  /\ UNCHANGED <<svcAdmin, config, cacheAttrs, fatal, inv, loc, cIn, cOut>>

\* a faulty deferred function: the tasks are called, not started with go
AwaitedAll(launched) == launched

\* lines 86 and 90: the tasks the deferred function waits for before it ends:
\* none, both are go statements
Awaited(launched) == {}

\* line 91: the deferred function ends; the handler returns, or the panic
\* goes on to the caller
Return(p) ==
  /\ ~fatal
  /\ pc[p] = "deferred"
  /\ \A t \in Awaited(hist[p].launched) : hist[p].tasks[t] \in {"done", "failed"}
  /\ pc' = [pc EXCEPT ![p] = IF loc[p].panicking THEN "panicked" ELSE "returned"]
  /\ UNCHANGED <<svcAdmin, config, cacheAttrs, fatal, inv, loc, hist, cIn, cOut>>

\* lines 86 and 90: a started task (common.UpdateLastConnected,
\* common.SendEvent) is scheduled or not, and once running ends well, ends
\* badly or does not end
Task(p) ==
  /\ ~fatal
  /\ \E t \in DOMAIN hist[p].tasks :
       \/ /\ hist[p].tasks[t] = "launched"
          /\ hist' = [hist EXCEPT ![p].tasks[t] = "running"]
       \/ /\ hist[p].tasks[t] = "running"
          /\ \E end \in {"done", "failed"} : hist' = [hist EXCEPT ![p].tasks[t] = end]
  /\ UNCHANGED <<svcAdmin, config, cacheAttrs, fatal, pc, inv, loc, cIn, cOut>>

\* the caller has the outcome; the next invocation may start
Finish(p) ==
  /\ ~fatal
  /\ pc[p] \in {"returned", "panicked"}
  /\ pc' = [pc EXCEPT ![p] = "idle"]
  /\ inv' = [inv EXCEPT ![p] = NoRequest]
  /\ loc' = [loc EXCEPT ![p] = InitLoc]
  /\ hist' = [hist EXCEPT ![p] = EmptyHist]
  /\ UNCHANGED <<svcAdmin, config, cacheAttrs, fatal, cIn, cOut>>

(***************************************************************************)
(* Helpers of the processor methods.                                       *)
(***************************************************************************)
Fail(p, e) ==
  /\ loc' = [loc EXCEPT ![p].err = e]
  /\ pc' = [pc EXCEPT ![p] = "defer"]

Log(p, evs) == hist' = [hist EXCEPT ![p].log = @ \o evs]

LogDecode(p, evs, d) ==
  hist' = [hist EXCEPT ![p].log = @ \o evs, ![p].decoded = Append(@, d)]

\* m with m[k] = v
SetKey(m, k, v) == [x \in DOMAIN m \cup {k} |-> IF x = k THEN v ELSE m[x]]

\* a request's Attributes field: the cache's own map of a resource (Go maps
\* are references, `req.Attributes = dr.Attributes` copies the reference), or
\* a map made for the request
CacheMap(name) == [alias |-> TRUE, res |-> name, map |-> NoAttributes]

OwnMap(m) == [alias |-> FALSE, res |-> "", map |-> m]

Deref(ref) == IF ref.alias THEN cacheAttrs[ref.res] ELSE ref.map

\* the map the request starts with: the declared one, replaced by a new map
\* only when a raw query is given and the declared map is empty
RequestAttributes(name, attributes, declared) ==
  IF attributes # "" /\ Cardinality(DOMAIN declared) <= 0
  THEN OwnMap(NoAttributes)
  ELSE CacheMap(name)

\* a faulty parse: an object without members is accepted
parseParamsEmptyAccepted(params) ==
  IF params.kind # "object"
  THEN [paramMap |-> NoParams, err |-> NewCommonEdgeX("SyntaxError", "json")]
  ELSE [paramMap |-> params.map, err |-> NoError]

\* json.Unmarshal into a map[string]string, then the emptiness check
parseParams(params) ==
  IF params.kind # "object"
  THEN [paramMap |-> NoParams, err |-> NewCommonEdgeX("SyntaxError", "json")]
  ELSE IF Cardinality(DOMAIN params.map) = 0
  THEN [paramMap |-> params.map, err |-> NewCommonEdgeX("error", "no parameters specified")]
  ELSE [paramMap |-> params.map, err |-> NoError]

ReadDeviceResourceCheck(found, rw) ==
  IF ~found THEN NewCommonEdgeX("EntityDoesNotExist", "deviceResource not found")
  ELSE IF rw = "W" THEN NewCommonEdgeX("NotAllowed", "deviceResource is marked as write-only")
  ELSE NoError

WriteDeviceResourceCheck(found, rw) ==
  IF ~found THEN NewCommonEdgeX("EntityDoesNotExist", "deviceResource not found")
  ELSE IF rw = "R" THEN NewCommonEdgeX("NotAllowed", "deviceResource is marked as read-only")
  ELSE NoError

\* a faulty limit: a count equal to MaxCmdOps is rejected too
ReadDeviceCommandCheckOffByOne(found, rw, n, maxCmdOps) ==
  IF ~found THEN NewCommonEdgeX("EntityDoesNotExist", "deviceCommand not found")
  ELSE IF rw = "W" THEN NewCommonEdgeX("NotAllowed", "deviceCommand is marked as write-only")
  ELSE IF n >= maxCmdOps THEN NewCommonEdgeX("ServerError", "GET command exceed MaxCmdOps")
  ELSE NoError

ReadDeviceCommandCheck(found, rw, n, maxCmdOps) ==
  IF ~found THEN NewCommonEdgeX("EntityDoesNotExist", "deviceCommand not found")
  ELSE IF rw = "W" THEN NewCommonEdgeX("NotAllowed", "deviceCommand is marked as write-only")
  ELSE IF n > maxCmdOps THEN NewCommonEdgeX("ServerError", "GET command exceed MaxCmdOps")
  ELSE NoError

\* a faulty permission check: the write path tests the read path's flag
WriteDeviceCommandCheckSwapped(found, rw, n, maxCmdOps) ==
  IF ~found THEN NewCommonEdgeX("EntityDoesNotExist", "deviceCommand not found")
  ELSE IF rw = "W" THEN NewCommonEdgeX("NotAllowed", "deviceCommand is marked as write-only")
  ELSE IF n > maxCmdOps THEN NewCommonEdgeX("ServerError", "SET command exceed MaxCmdOps")
  ELSE NoError

WriteDeviceCommandCheck(found, rw, n, maxCmdOps) ==
  IF ~found THEN NewCommonEdgeX("EntityDoesNotExist", "deviceCommand not found")
  ELSE IF rw = "R" THEN NewCommonEdgeX("NotAllowed", "deviceCommand is marked as read-only")
  ELSE IF n > maxCmdOps THEN NewCommonEdgeX("ServerError", "SET command exceed MaxCmdOps")
  ELSE NoError

\* the text written to a single resource: the body's, else the default
ResourceValue(paramMap, dr) ==
  IF dr.Name \in DOMAIN paramMap THEN [ok |-> TRUE, value |-> paramMap[dr.Name]]
  ELSE IF dr.DefaultValue # T_empty THEN [ok |-> TRUE, value |-> dr.DefaultValue]
  ELSE [ok |-> FALSE, value |-> T_empty]

\* a faulty precedence: a declared default is taken before the body's text
OperationValueDefaultsFirst(paramMap, ro, dr) ==
  IF ro.DefaultValue # T_empty THEN [ok |-> TRUE, value |-> ro.DefaultValue]
  ELSE IF dr.DefaultValue # T_empty THEN [ok |-> TRUE, value |-> dr.DefaultValue]
  ELSE IF ro.DeviceResource \in DOMAIN paramMap
  THEN [ok |-> TRUE, value |-> paramMap[ro.DeviceResource]]
  ELSE [ok |-> FALSE, value |-> T_empty]

\* the text written by a Resource Operation: the body's, else the
\* operation's default, else the resource's default
OperationValue(paramMap, ro, dr) ==
  IF ro.DeviceResource \in DOMAIN paramMap
  THEN [ok |-> TRUE, value |-> paramMap[ro.DeviceResource]]
  ELSE IF ro.DefaultValue # T_empty THEN [ok |-> TRUE, value |-> ro.DefaultValue]
  ELSE IF dr.DefaultValue # T_empty THEN [ok |-> TRUE, value |-> dr.DefaultValue]
  ELSE [ok |-> FALSE, value |-> T_empty]

\* a faulty resolver: the table is read from key to entry
MappedValuesByKey(mappings, value) ==
  IF value \in DOMAIN mappings THEN {mappings[value]} ELSE {value}

\* the texts the mapping table may turn value into: a key whose entry is
\* value (Go iterates a map in no fixed order), else value itself
MappedValues(mappings, value) ==
  LET keys == {k \in DOMAIN mappings : mappings[k] = value}
  IN IF keys = {} THEN {value} ELSE keys

\* a faulty loop: a value that fails to decode is skipped and the loop goes on
DecodeAbortsNever(err) == FALSE

\* lines 362-366: a decode error ends the composite write
DecodeAborts(err) == err.kind # "nil"

\* a faulty write: a transformation error is passed over
TransformAbortsNever(ok) == FALSE

\* lines 272-274 and 387-389: a transformation error ends the write
TransformAborts(ok) == ~ok

\* a faulty loop: a composite read goes to the driver after its first request
AfterRequestFirstOnly(path, i, n) ==
  CASE path = "ReadDeviceResource" -> "driverRead"
    [] path = "ReadDeviceCommand" -> "driverRead"
    [] OTHER -> "transform"

\* where a path goes once a request's attributes are set
AfterRequest(path, i, n) ==
  CASE path = "ReadDeviceResource" -> "driverRead"
    [] path = "ReadDeviceCommand" -> (IF i < n THEN "RDCloop" ELSE "driverRead")
    [] OTHER -> "transform"

OperationCount(name) ==
  IF name \in DOMAIN Commands THEN Len(Commands[name].ResourceOperations) ELSE 0

(***************************************************************************)
(* Building a Command Request (the same statements in all four methods).   *)
(***************************************************************************)
\* reqs[i].DeviceResourceName, .Attributes = dr.Attributes, the test of
\* c.attributes and of len(Attributes), make(map), and .Type
AttrAlias(p) ==
  /\ ~fatal
  /\ pc[p] = "attrAlias"
  /\ LET l == loc[p]
         type == IF inv[p].isRead THEN Resources[l.dr].ValueType ELSE l.cvs[l.i].Type
         ref == RequestAttributes(l.dr, inv[p].attributes, cacheAttrs[l.dr])
     IN /\ loc' = [loc EXCEPT ![p].reqs =
                     Append(@, [DeviceResourceName |-> l.dr, Attributes |-> ref,
                                Type |-> type])]
        /\ pc' = [pc EXCEPT ![p] =
                    IF inv[p].attributes # "" THEN "attrWrite"
                    ELSE AfterRequest(l.path, l.i, OperationCount(inv[p].cmd))]
  /\ UNCHANGED <<svcAdmin, config, cacheAttrs, fatal, inv, hist, cIn, cOut>>

\* reqs[i].Attributes[common.URLRawQuery] = c.attributes
AttrWrite(p) ==
  /\ ~fatal
  /\ pc[p] = "attrWrite"
  /\ LET l == loc[p]
         n == Len(l.reqs)
         ref == l.reqs[n].Attributes
     IN /\ IF ref.alias
           THEN /\ cacheAttrs' = [cacheAttrs EXCEPT ![ref.res] =
                                    SetKey(@, URLRawQuery, inv[p].attributes)]
                /\ UNCHANGED loc
           ELSE /\ loc' = [loc EXCEPT ![p].reqs[n].Attributes =
                             OwnMap(SetKey(ref.map, URLRawQuery, inv[p].attributes))]
                /\ UNCHANGED cacheAttrs
        /\ pc' = [pc EXCEPT ![p] = AfterRequest(l.path, l.i, OperationCount(inv[p].cmd))]
  /\ UNCHANGED <<svcAdmin, config, fatal, inv, hist, cIn, cOut>>

(***************************************************************************)
(* The read paths.                                                         *)
(***************************************************************************)
\* lines 111-124
ReadDeviceResource(p) ==
  /\ ~fatal
  /\ pc[p] = "ReadDeviceResource"
  /\ LET name == inv[p].cmd
         found == name \in DOMAIN Resources
         e == ReadDeviceResourceCheck(found, IF found THEN Resources[name].ReadWrite ELSE "")
     IN /\ Log(p, << Event("DeviceResource", name, found) >>)
        /\ IF e.kind # "nil" THEN Fail(p, e)
           ELSE /\ loc' = [loc EXCEPT ![p].dr = name]
                /\ pc' = [pc EXCEPT ![p] = "attrAlias"]
  /\ UNCHANGED <<svcAdmin, config, cacheAttrs, fatal, inv, cIn, cOut>>

\* lines 158-180
ReadDeviceCommand(p) ==
  /\ ~fatal
  /\ pc[p] = "ReadDeviceCommand"
  /\ LET name == inv[p].cmd
         found == name \in DOMAIN Commands
         e == ReadDeviceCommandCheck(found, IF found THEN Commands[name].ReadWrite ELSE "",
                                     OperationCount(name), config.MaxCmdOps)
     IN /\ Log(p, << Event("DeviceCommand", name, found) >>)
        /\ IF e.kind # "nil" THEN Fail(p, e)
           ELSE /\ pc' = [pc EXCEPT ![p] =
                            IF OperationCount(name) = 0 THEN "driverRead" ELSE "RDCloop"]
                /\ UNCHANGED loc
  /\ UNCHANGED <<svcAdmin, config, cacheAttrs, fatal, inv, cIn, cOut>>

\* lines 181-188: the next Resource Operation's resource is looked up
RDCloop(p) ==
  /\ ~fatal
  /\ pc[p] = "RDCloop"
  /\ LET op == Commands[inv[p].cmd].ResourceOperations[loc[p].i + 1]
         drName == op.DeviceResource
         found == drName \in DOMAIN Resources
     IN /\ Log(p, << Event("DeviceResource", drName, found) >>)
        /\ IF ~found
           THEN Fail(p, NewCommonEdgeX("ServerError", "deviceResource in GET command not defined"))
           ELSE /\ loc' = [loc EXCEPT ![p].dr = drName, ![p].i = @ + 1]
                /\ pc' = [pc EXCEPT ![p] = "attrAlias"]
  /\ UNCHANGED <<svcAdmin, config, cacheAttrs, fatal, inv, cIn, cOut>>

\* the requests as the driver reads them during its call
Observed(reqs) ==
  [k \in 1..Len(reqs) |->
     [DeviceResourceName |-> reqs[k].DeviceResourceName,
      Attributes |-> Deref(reqs[k].Attributes), Type |-> reqs[k].Type]]

DriverCall(p, op) ==
  [op |-> op, device |-> loc[p].device, reqs |-> Observed(loc[p].reqs),
   params |-> loc[p].cvs]

\* a faulty method: the driver is called again after its error
AfterDriverErrorRetry(step) == step

\* lines 144-147, 204-207, 280-283 and 396-399: the method returns the
\* driver's error at once
AfterDriverError(step) == "defer"

\* the driver's answer to call op, recorded with the call
Dispatch(p, op, ok) ==
  hist' = [hist EXCEPT ![p].calls = Append(@, DriverCall(p, op)),
                       ![p].log = Append(@, Event("driver", op, ok))]

\* lines 141-147 and 201-207: driver.HandleReadCommands, which may fail
DriverRead(p) ==
  /\ ~fatal
  /\ pc[p] = "driverRead"
  /\ \E ok \in BOOLEAN :
       /\ Dispatch(p, "HandleReadCommands", ok)
       /\ IF ok THEN pc' = [pc EXCEPT ![p] = "convert"] /\ UNCHANGED loc
          ELSE /\ loc' = [loc EXCEPT ![p].err = NewCommonEdgeX("ServerError", "error reading")]
               /\ pc' = [pc EXCEPT ![p] = AfterDriverError("driverRead")]
  /\ UNCHANGED <<svcAdmin, config, cacheAttrs, fatal, inv, cIn, cOut>>

\* lines 149-155 and 209-215: transformer.CommandValuesToEventDTO, which may fail
Convert(p) ==
  /\ ~fatal
  /\ pc[p] = "convert"
  /\ \E ok \in BOOLEAN :
       loc' = [loc EXCEPT
                 ![p].res = IF ok THEN [nil |-> FALSE, DeviceName |-> loc[p].device,
                                        SourceName |-> inv[p].cmd]
                            ELSE NilEvent,
                 ![p].err = IF ok THEN NoError
                            ELSE NewCommonEdgeX("ServerError", "failed to convert CommandValue to Event")]
  /\ pc' = [pc EXCEPT ![p] = "defer"]
  /\ UNCHANGED <<svcAdmin, config, cacheAttrs, fatal, inv, hist, cIn, cOut>>

(***************************************************************************)
(* The write paths.                                                        *)
(***************************************************************************)
\* lines 218-231
WriteDeviceResource(p) ==
  /\ ~fatal
  /\ pc[p] = "WriteDeviceResource"
  /\ LET name == inv[p].cmd
         found == name \in DOMAIN Resources
         e == WriteDeviceResourceCheck(found, IF found THEN Resources[name].ReadWrite ELSE "")
     IN /\ Log(p, << Event("DeviceResource", name, found) >>)
        /\ IF e.kind # "nil" THEN Fail(p, e)
           ELSE /\ loc' = [loc EXCEPT ![p].dr = name]
                /\ pc' = [pc EXCEPT ![p] = "WDRvalue"]
  /\ UNCHANGED <<svcAdmin, config, cacheAttrs, fatal, inv, cIn, cOut>>

\* lines 250-254: cv is the decode's answer
WDRdecoded(p, paramMap, drName, value, cv) ==
  /\ LogDecode(p, << Event("parseParams", "", TRUE),
                     Event("createCommandValue", drName, ~IsNilValue(cv.result)) >>,
               Decoded(drName, value, value))
  /\ IF cv.err.kind # "nil"
     THEN Fail(p, NewCommonEdgeX("ServerError", "failed to create CommandValue"))
     ELSE /\ loc' = [loc EXCEPT ![p].paramMap = paramMap, ![p].cvs = << cv.result >>]
          /\ pc' = [pc EXCEPT ![p] = "WDRreq"]

\* lines 239-254: v is the text found for the resource
WDRfound(p, paramMap, dr, v) ==
  IF ~v.ok
  THEN /\ Log(p, << Event("parseParams", "", TRUE) >>)
       /\ Fail(p, NewCommonEdgeX("ServerError", "not found in request body and no default value defined"))
  ELSE WDRdecoded(p, paramMap, dr.Name, v.value,
                  createCommandValueFromDeviceResource(dr, v.value))

\* lines 233-254: the body is parsed, the value found and decoded
WDRvalue(p) ==
  /\ ~fatal
  /\ pc[p] = "WDRvalue"
  /\ LET pm == parseParams(inv[p].body)
     IN IF pm.err.kind # "nil"
        THEN /\ Log(p, << Event("parseParams", "", FALSE) >>)
             /\ Fail(p, NewCommonEdgeX("ServerError", "failed to parse SET command parameters"))
        ELSE WDRfound(p, pm.paramMap, Resources[loc[p].dr],
                      ResourceValue(pm.paramMap, Resources[loc[p].dr]))
  /\ UNCHANGED <<svcAdmin, config, cacheAttrs, fatal, inv, cIn, cOut>>

\* lines 256-258: reqs[0].DeviceResourceName = cv.DeviceResourceName, a nil
\* pointer dereference when cv is nil
WDRreq(p) ==
  /\ ~fatal
  /\ pc[p] = "WDRreq"
  /\ IF IsNilValue(loc[p].cvs[1])
     THEN /\ loc' = [loc EXCEPT ![p].panicking = TRUE]
          /\ pc' = [pc EXCEPT ![p] = "defer"]
     ELSE /\ loc' = [loc EXCEPT ![p].i = 1]
          /\ pc' = [pc EXCEPT ![p] = "attrAlias"]
  /\ UNCHANGED <<svcAdmin, config, cacheAttrs, fatal, inv, hist, cIn, cOut>>

\* lines 288-307
WriteDeviceCommand(p) ==
  /\ ~fatal
  /\ pc[p] = "WriteDeviceCommand"
  /\ LET name == inv[p].cmd
         found == name \in DOMAIN Commands
         e == WriteDeviceCommandCheck(found, IF found THEN Commands[name].ReadWrite ELSE "",
                                      OperationCount(name), config.MaxCmdOps)
     IN /\ Log(p, << Event("DeviceCommand", name, found) >>)
        /\ IF e.kind # "nil" THEN Fail(p, e)
           ELSE /\ pc' = [pc EXCEPT ![p] = "WDCparse"]
                /\ UNCHANGED loc
  /\ UNCHANGED <<svcAdmin, config, cacheAttrs, fatal, inv, cIn, cOut>>

\* lines 309-316
WDCparse(p) ==
  /\ ~fatal
  /\ pc[p] = "WDCparse"
  /\ LET pm == parseParams(inv[p].body)
     IN /\ Log(p, << Event("parseParams", "", pm.err.kind = "nil") >>)
        /\ IF pm.err.kind # "nil"
           THEN Fail(p, NewCommonEdgeX("ServerError", "failed to parse SET command parameters"))
           ELSE /\ loc' = [loc EXCEPT ![p].paramMap = pm.paramMap]
                /\ pc' = [pc EXCEPT ![p] =
                            IF OperationCount(inv[p].cmd) = 0 THEN "driverWrite" ELSE "WDCloop"]
  /\ UNCHANGED <<svcAdmin, config, cacheAttrs, fatal, inv, cIn, cOut>>

\* faulty checks: the resource's ReadWrite is not read
WDCEntryCheckNoReadOnly(found, rw, hasValue) ==
  IF ~found
  THEN NewCommonEdgeX("ServerError", "deviceResource in SET command not defined")
  ELSE IF ~hasValue
  THEN NewCommonEdgeX("ServerError", "not found in request body and no default value defined")
  ELSE NoError

\* faulty checks: an undeclared resource is reported as a missing entity
WDCEntryCheckNotFound(found, rw, hasValue) ==
  IF ~found
  THEN NewCommonEdgeX("EntityDoesNotExist", "deviceResource in SET command not defined")
  ELSE IF rw = "R"
  THEN NewCommonEdgeX("NotAllowed", "deviceResource in SET command is marked as read-only")
  ELSE IF ~hasValue
  THEN NewCommonEdgeX("ServerError", "not found in request body and no default value defined")
  ELSE NoError

\* lines 319-343: the checks of one Resource Operation before its value
\* is mapped and decoded
WDCEntryCheck(found, rw, hasValue) ==
  IF ~found
  THEN NewCommonEdgeX("ServerError", "deviceResource in SET command not defined")
  ELSE IF rw = "R"
  THEN NewCommonEdgeX("NotAllowed", "deviceResource in SET command is marked as read-only")
  ELSE IF ~hasValue
  THEN NewCommonEdgeX("ServerError", "not found in request body and no default value defined")
  ELSE NoError

\* lines 360-367: cv is the decode's answer for the operation on drName
WDCdecoded(p, drName, candidate, value, cv, last) ==
  /\ LogDecode(p, << Event("DeviceResource", drName, TRUE),
                     Event("createCommandValue", drName, ~IsNilValue(cv.result)) >>,
               Decoded(drName, candidate, value))
  /\ loc' = [loc EXCEPT
       ![p].cvs = IF cv.err.kind = "nil" THEN Append(@, cv.result) ELSE @,
       ![p].i = IF DecodeAborts(cv.err) THEN @ ELSE IF last THEN 0 ELSE @ + 1,
       ![p].err = IF DecodeAborts(cv.err)
                  THEN NewCommonEdgeX("ServerError", "failed to create CommandValue")
                  ELSE @]
  /\ pc' = [pc EXCEPT ![p] =
       IF DecodeAborts(cv.err) THEN "defer"
       ELSE IF ~last THEN "WDCloop"
       ELSE IF Len(loc'[p].cvs) = 0 THEN "driverWrite" ELSE "WDCreq"]

\* lines 317-367: one Resource Operation: lookup, permission, value,
\* mapping, decode
WDCloop(p) ==
  /\ ~fatal
  /\ pc[p] = "WDCloop"
  /\ LET l == loc[p]
         ro == Commands[inv[p].cmd].ResourceOperations[l.i + 1]
         drName == ro.DeviceResource
         found == drName \in DOMAIN Resources
         e == WDCEntryCheck(found, IF found THEN Resources[drName].ReadWrite ELSE "",
                            found /\ OperationValue(l.paramMap, ro, Resources[drName]).ok)
     IN IF e.kind # "nil"
        THEN /\ Log(p, << Event("DeviceResource", drName, found) >>)
             /\ Fail(p, e)
        ELSE \E value \in MappedValues(ro.Mappings,
                            OperationValue(l.paramMap, ro, Resources[drName]).value) :
               WDCdecoded(p, drName,
                          OperationValue(l.paramMap, ro, Resources[drName]).value, value,
                          createCommandValueFromDeviceResource(Resources[drName], value),
                          l.i + 1 >= OperationCount(inv[p].cmd))
  /\ UNCHANGED <<svcAdmin, config, cacheAttrs, fatal, inv, cIn, cOut>>

\* lines 371-372: the next value's resource is looked up by
\* cv.DeviceResourceName, a nil pointer dereference when cv is nil
WDCreq(p) ==
  /\ ~fatal
  /\ pc[p] = "WDCreq"
  /\ LET cv == loc[p].cvs[loc[p].i + 1]
     IN IF IsNilValue(cv)
        THEN /\ loc' = [loc EXCEPT ![p].panicking = TRUE]
             /\ pc' = [pc EXCEPT ![p] = "defer"]
             /\ UNCHANGED hist
        ELSE /\ Log(p, << Event("DeviceResource", cv.DeviceResourceName, TRUE) >>)
             /\ loc' = [loc EXCEPT ![p].dr = cv.DeviceResourceName, ![p].i = @ + 1]
             /\ pc' = [pc EXCEPT ![p] = "attrAlias"]
  /\ UNCHANGED <<svcAdmin, config, cacheAttrs, fatal, inv, cIn, cOut>>

\* lines 268-275 and 384-390: transformer.TransformWriteParameter, which may
\* fail, when DataTransform is configured
Transform(p) ==
  /\ ~fatal
  /\ pc[p] = "transform"
  /\ LET l == loc[p]
         next == IF l.path = "WriteDeviceCommand" /\ l.i < Len(l.cvs)
                 THEN "WDCreq" ELSE "driverWrite"
     IN IF ~config.DataTransform
        THEN /\ pc' = [pc EXCEPT ![p] = next]
             /\ UNCHANGED <<loc, hist>>
        ELSE \E ok \in BOOLEAN :
             /\ Log(p, << Event("TransformWriteParameter", l.dr, ok) >>)
             /\ IF TransformAborts(ok)
                THEN Fail(p, NewCommonEdgeX("ContractInvalid", "failed to transform set parameter"))
                ELSE /\ pc' = [pc EXCEPT ![p] = next]
                     /\ UNCHANGED loc
  /\ UNCHANGED <<svcAdmin, config, cacheAttrs, fatal, inv, cIn, cOut>>

\* lines 277-285 and 393-401: driver.HandleWriteCommands, which may fail
DriverWrite(p) ==
  /\ ~fatal
  /\ pc[p] = "driverWrite"
  /\ \E ok \in BOOLEAN :
       /\ Dispatch(p, "HandleWriteCommands", ok)
       /\ IF ok THEN pc' = [pc EXCEPT ![p] = "defer"] /\ UNCHANGED loc
          ELSE /\ loc' = [loc EXCEPT ![p].err = NewCommonEdgeX("ServerError", "error writing")]
               /\ pc' = [pc EXCEPT ![p] = AfterDriverError("driverWrite")]
  /\ UNCHANGED <<svcAdmin, config, cacheAttrs, fatal, inv, cIn, cOut>>

(***************************************************************************)
(* Concurrent access to a cached attribute map.                            *)
(***************************************************************************)
\* p is at the statement that writes the cache's map of resource r
WritesMap(p, r) ==
  /\ pc[p] = "attrWrite"
  /\ LET ref == loc[p].reqs[Len(loc[p].reqs)].Attributes
     IN ref.alias /\ ref.res = r

\* p is at a statement that reads the cache's map of resource r: the len()
\* test, or the driver call with a request that holds the map
ReadsMap(p, r) ==
  \/ pc[p] = "attrAlias" /\ loc[p].dr = r /\ inv[p].attributes # ""
  \/ /\ pc[p] \in {"driverRead", "driverWrite"}
     /\ \E k \in 1..Len(loc[p].reqs) :
          loc[p].reqs[k].Attributes.alias /\ loc[p].reqs[k].Attributes.res = r

Conflict(p, q, r) == p # q /\ WritesMap(p, r) /\ (WritesMap(q, r) \/ ReadsMap(q, r))

\* an unsynchronized map write that meets another access: the runtime may
\* throw "concurrent map writes" and end the process
MapFault(p) ==
  /\ ~fatal
  /\ \E q \in Procs, r \in DOMAIN Resources : Conflict(p, q, r)
  /\ fatal' = TRUE
  /\ UNCHANGED <<svcAdmin, config, cacheAttrs, pc, inv, loc, hist, cIn, cOut>>

(***************************************************************************)
(* Specifications.                                                         *)
(***************************************************************************)
DeclaredAttributes == [r \in DOMAIN Resources |-> Resources[r].Attributes]

Idle ==
  /\ cacheAttrs = DeclaredAttributes
  /\ fatal = FALSE
  /\ pc = [p \in Procs |-> "idle"]
  /\ inv = [p \in Procs |-> NoRequest]
  /\ loc = [p \in Procs |-> InitLoc]
  /\ hist = [p \in Procs |-> EmptyHist]

NoCodec == cIn = [kind |-> "String", text |-> T_empty] /\ cOut = [result |-> NilValue, err |-> NoError, done |-> FALSE]

Init ==
  /\ svcAdmin \in {"UNLOCKED", "LOCKED"}
  /\ config \in [UpdateLastConnected : BOOLEAN, DataTransform : BOOLEAN, MaxCmdOps : 2..MaxOps]
  /\ Idle
  /\ NoCodec

Step(p, requests) ==
  \/ pc[p] = "idle" /\ \E rq \in requests : Invoke(p, rq)
  \/ CommandHandler(p)
  \/ Resolve(p)
  \/ ReadDeviceResource(p)
  \/ ReadDeviceCommand(p)
  \/ RDCloop(p)
  \/ AttrAlias(p)
  \/ AttrWrite(p)
  \/ DriverRead(p)
  \/ Convert(p)
  \/ WriteDeviceResource(p)
  \/ WDRvalue(p)
  \/ WDRreq(p)
  \/ WriteDeviceCommand(p)
  \/ WDCparse(p)
  \/ WDCloop(p)
  \/ WDCreq(p)
  \/ Transform(p)
  \/ DriverWrite(p)
  \/ Deferred(p)
  \/ Return(p)
  \/ Finish(p)

Next ==
  \/ \E p \in SeqProcs : Step(p, Requests)
  \/ \E p \in SeqProcs : Task(p)

Spec == Init /\ [][Next]_vars

ConcInit ==
  /\ svcAdmin = "UNLOCKED"
  /\ config = [UpdateLastConnected |-> FALSE, DataTransform |-> FALSE, MaxCmdOps |-> MaxOps]
  /\ Idle
  /\ NoCodec

ConcNext ==
  \/ \E p \in Procs : Step(p, ConcRequests)
  \/ \E p \in Procs : MapFault(p)

ConcSpec == ConcInit /\ [][ConcNext]_vars

\* one invocation at a time with its background tasks: the handler's own
\* goroutine is scheduled fairly, the tasks need not be
TaskRequests ==
  { Request(rq[1], rq[2], "d1", rq[3],
            ObjectBody("temp" :> T_1p5 @@ "count" :> T_5 @@ "switch" :> T_true), rq[4]) :
      rq \in BOOLEAN \X BOOLEAN \X {"temp", "pair", "nosuch"} \X {"", "q1"} }

TaskInit ==
  /\ svcAdmin = "UNLOCKED"
  /\ config \in [UpdateLastConnected : BOOLEAN, DataTransform : BOOLEAN, MaxCmdOps : {MaxOps}]
  /\ Idle
  /\ NoCodec

TaskNext ==
  \/ \E p \in SeqProcs : Step(p, TaskRequests)
  \/ \E p \in SeqProcs : Task(p)

TaskSpec ==
  /\ TaskInit
  /\ [][TaskNext]_vars
  /\ \A p \in SeqProcs : WF_vars(Step(p, TaskRequests))

\* the codec on its own: a kind and a text are drawn, then decoded
CodecInit ==
  /\ svcAdmin = "UNLOCKED"
  /\ config = [UpdateLastConnected |-> FALSE, DataTransform |-> FALSE, MaxCmdOps |-> MaxOps]
  /\ Idle
  /\ cIn \in [kind : CodecKinds, text : Texts]
  /\ cOut = [result |-> NilValue, err |-> NoError, done |-> FALSE]

Decode ==
  /\ ~cOut.done
  /\ LET r == createCommandValueFromDeviceResource(
                [Name |-> "dr", ValueType |-> cIn.kind], cIn.text)
     IN cOut' = [result |-> r.result, err |-> r.err, done |-> TRUE]
  /\ UNCHANGED <<handlerVars, cIn>>

CodecNext == Decode

CodecSpec == CodecInit /\ [][CodecNext]_vars

(***************************************************************************)
(* Properties.                                                             *)
(***************************************************************************)
\* the invocation has ended: it returned, or it panicked
Done(p) == pc[p] \in {"returned", "panicked"}

\* the eligibility checks of the invocation have been made
Checked(p) == pc[p] \notin {"idle", "CommandHandler"}

DeviceKnown(p) == inv[p].device \in DOMAIN Devices

DeviceBlocked(p) ==
  /\ DeviceKnown(p)
  /\ \/ Devices[inv[p].device].AdminState = "LOCKED"
     \/ Devices[inv[p].device].OperatingState = "DOWN"

Eligible(p) == svcAdmin = "UNLOCKED" /\ DeviceKnown(p) /\ ~DeviceBlocked(p)

Logged(p, evs) == \E k \in 1..Len(hist[p].log) : hist[p].log[k].ev \in evs

LoggedAs(p, ev, arg, ok) ==
  \E k \in 1..Len(hist[p].log) : hist[p].log[k] = Event(ev, arg, ok)

DecodeFailed(p) ==
  \E k \in 1..Len(hist[p].log) :
    hist[p].log[k].ev = "createCommandValue" /\ ~hist[p].log[k].ok

TransformFailed(p) ==
  \E k \in 1..Len(hist[p].log) :
    hist[p].log[k].ev = "TransformWriteParameter" /\ ~hist[p].log[k].ok

\* C1: in a composite write (WriteDeviceCommand), once the decode of any
\* Resource Operation's value or the write transformation of any value has
\* failed, HandleWriteCommands has not been called and is not called later in
\* that invocation, whatever the position of the failing entry.
C1_NoPartialDispatch ==
  \A p \in Procs :
    loc[p].path = "WriteDeviceCommand" /\ (DecodeFailed(p) \/ TransformFailed(p))
      => hist[p].calls = << >>

\* a composite write of three values ended after its first value decoded and
\* its second did not
C1_Witness ==
  \E p \in Procs :
    /\ Done(p)
    /\ loc[p].path = "WriteDeviceCommand"
    /\ inv[p].cmd = "all"
    /\ LoggedAs(p, "createCommandValue", "count", TRUE)
    /\ LoggedAs(p, "createCommandValue", "switch", FALSE)
    /\ hist[p].calls = << >>

\* C2: the eligibility checks are made in the order service AdminState,
\* device existence, device AdminState and OperatingState, and the first one
\* that fails decides the error: ServiceLocked ("service locked") when the
\* service is locked, even for an unknown device; EntityDoesNotExist when the
\* service is unlocked and the device unknown; ServiceLocked (about the
\* device) when the device is known and locked or down.
C2_EligibilityOrder ==
  \A p \in Procs : Checked(p) =>
    /\ svcAdmin = "LOCKED" =>
         /\ pc[p] = "returned"
         /\ loc[p].err.kind = "ServiceLocked"
         /\ loc[p].err.msg = "service locked"
    /\ svcAdmin = "UNLOCKED" /\ ~DeviceKnown(p) =>
         /\ pc[p] = "returned"
         /\ loc[p].err.kind = "EntityDoesNotExist"
    /\ svcAdmin = "UNLOCKED" /\ DeviceBlocked(p) =>
         /\ pc[p] = "returned"
         /\ loc[p].err.kind = "ServiceLocked"
         /\ loc[p].err.msg # "service locked"

\* the service is locked and the named device unknown: ServiceLocked
C2_Witness ==
  \E p \in Procs :
    /\ pc[p] = "returned"
    /\ svcAdmin = "LOCKED"
    /\ inv[p].device = "dNone"
    /\ loc[p].err.kind = "ServiceLocked"

\* C3: an invocation that fails an eligibility check returns that check's
\* error whatever the operation name, direction, body and raw query, and it
\* has looked nothing up in the profile, parsed no body, called no driver and
\* launched nothing; a locked device gets ServiceLocked.
C3_IneligibleDoesNothing ==
  \A p \in Procs : Checked(p) /\ ~Eligible(p) =>
    /\ pc[p] = "returned"
    /\ loc[p].err.kind \in {"ServiceLocked", "EntityDoesNotExist"}
    /\ hist[p].log = << >>
    /\ hist[p].calls = << >>
    /\ hist[p].launched = {}
    /\ loc[p].reqs = << >> /\ loc[p].cvs = << >>
    /\ (DeviceKnown(p) /\ Devices[inv[p].device].AdminState = "LOCKED"
          => loc[p].err.kind = "ServiceLocked")

\* a write of an operation that does not exist, to a locked device
C3_Witness ==
  \E p \in Procs :
    /\ pc[p] = "returned"
    /\ svcAdmin = "UNLOCKED"
    /\ inv[p].device = "dLocked"
    /\ ~inv[p].isRead
    /\ inv[p].cmd = "nosuch"
    /\ inv[p].attributes = "q1"
    /\ loc[p].err.kind = "ServiceLocked"

\* the ReadWrite of the target an operation name resolves to: the command of
\* that name, else the resource of that name
TargetReadWrite(name) ==
  IF name \in DOMAIN Commands THEN Commands[name].ReadWrite
  ELSE IF name \in DOMAIN Resources THEN Resources[name].ReadWrite
  ELSE "none"

TargetDenied(p) ==
  \/ inv[p].isRead /\ TargetReadWrite(inv[p].cmd) = "W"
  \/ ~inv[p].isRead /\ TargetReadWrite(inv[p].cmd) = "R"

\* C4: on an eligible device, a read of a WriteOnly target and a write of a
\* ReadOnly target (single resource or composite command) return NotAllowed;
\* the driver is never called and the body is never parsed, so the answer is
\* the same for a malformed or empty body.
C4_PermissionBeforeBody ==
  \A p \in Procs : pc[p] # "idle" /\ Eligible(p) /\ TargetDenied(p) =>
    /\ hist[p].calls = << >>
    /\ ~Logged(p, {"parseParams", "createCommandValue"})
    /\ (Done(p) => pc[p] = "returned" /\ loc[p].err.kind = "NotAllowed")

\* a write of a ReadOnly resource with a malformed body was refused
C4_Witness ==
  \E p \in Procs :
    /\ pc[p] = "returned"
    /\ Eligible(p)
    /\ ~inv[p].isRead
    /\ inv[p].cmd = "serial"
    /\ inv[p].body = MalformedBody
    /\ loc[p].err.kind = "NotAllowed"

ReadOnlyEntries(name) ==
  { k \in 1..OperationCount(name) :
      LET r == Commands[name].ResourceOperations[k].DeviceResource
      IN r \in DOMAIN Resources /\ Resources[r].ReadWrite = "R" }

\* a composite write the count and the command's own ReadWrite let through,
\* with a ReadOnly resource among its Resource Operations
ReadOnlyEntryCase(p) ==
  /\ Eligible(p)
  /\ ~inv[p].isRead
  /\ inv[p].cmd \in DOMAIN Commands
  /\ Commands[inv[p].cmd].ReadWrite # "R"
  /\ OperationCount(inv[p].cmd) <= config.MaxCmdOps
  /\ ReadOnlyEntries(inv[p].cmd) # {}

\* the body is a JSON object of strings with at least one member
BodyUsable(p) == inv[p].body.kind = "object" /\ DOMAIN inv[p].body.map # {}

\* Resource Operation k of the command is declared, has a value in the body
\* or a default, and the decode of that value returns no error
EntryPasses(p, k) ==
  LET ro == Commands[inv[p].cmd].ResourceOperations[k]
      r == ro.DeviceResource
  IN /\ r \in DOMAIN Resources
     /\ OperationValue(inv[p].body.map, ro, Resources[r]).ok
     /\ \A value \in MappedValues(ro.Mappings,
                       OperationValue(inv[p].body.map, ro, Resources[r]).value) :
          createCommandValueFromDeviceResource(Resources[r], value).err.kind = "nil"

\* every Resource Operation before the first ReadOnly one passes
PrefixPasses(p) ==
  \A k \in 1..OperationCount(inv[p].cmd) :
    (\A j \in ReadOnlyEntries(inv[p].cmd) : k < j) => EntryPasses(p, k)

\* C5 as stated: such a composite write fails with NotAllowed whatever the
\* body holds and wherever the ReadOnly entry stands.
C5_Original ==
  \A p \in Procs : Done(p) /\ ReadOnlyEntryCase(p) => loc[p].err.kind = "NotAllowed"

\* C5: a composite write with a ReadOnly resource among its Resource
\* Operations never calls the driver; it fails with NotAllowed when the body
\* parses to a non-empty object and every entry before the first ReadOnly one
\* is declared, has a value and decodes without a returned error, and with
\* the ServerError of the earlier step otherwise.
C5_ReadOnlyEntry ==
  \A p \in Procs : ReadOnlyEntryCase(p) =>
    /\ hist[p].calls = << >>
    /\ Done(p) =>
         /\ pc[p] = "returned"
         /\ loc[p].err.kind =
              IF BodyUsable(p) /\ PrefixPasses(p) THEN "NotAllowed" ELSE "ServerError"

\* the first value of the body decoded, the second entry is ReadOnly
C5_Witness ==
  \E p \in Procs :
    /\ pc[p] = "returned"
    /\ ReadOnlyEntryCase(p)
    /\ inv[p].cmd = "mixed"
    /\ LoggedAs(p, "createCommandValue", "count", TRUE)
    /\ loc[p].err.kind = "NotAllowed"

\* a composite command the direction allows, on an eligible device
CompositeAllowed(p) ==
  /\ pc[p] # "idle"
  /\ Eligible(p)
  /\ inv[p].cmd \in DOMAIN Commands
  /\ ~TargetDenied(p)

ExceedMessages == {"GET command exceed MaxCmdOps", "SET command exceed MaxCmdOps"}

\* C6: a composite read or write of more Resource Operations than MaxCmdOps
\* fails with ServerError before the body is parsed, before a constituent
\* resource is looked up, before a value is decoded, and without a driver
\* call; a count equal to MaxCmdOps is not refused by this check; every batch
\* the driver gets for a composite command has at most MaxCmdOps requests.
C6_MaxCmdOps ==
  \A p \in Procs : CompositeAllowed(p) =>
    /\ OperationCount(inv[p].cmd) > config.MaxCmdOps =>
         /\ hist[p].calls = << >>
         /\ ~Logged(p, {"parseParams", "DeviceResource", "createCommandValue",
                        "TransformWriteParameter"})
         /\ (Done(p) => /\ pc[p] = "returned"
                        /\ loc[p].err.kind = "ServerError"
                        /\ loc[p].err.msg \in ExceedMessages)
    /\ OperationCount(inv[p].cmd) <= config.MaxCmdOps =>
         loc[p].err.msg \notin ExceedMessages
    /\ \A k \in 1..Len(hist[p].calls) :
         Len(hist[p].calls[k].reqs) <= config.MaxCmdOps

\* a composite write of three operations under MaxCmdOps = 2 was refused,
\* its malformed body unread
C6_Witness ==
  \E p \in Procs :
    /\ pc[p] = "returned"
    /\ CompositeAllowed(p)
    /\ ~inv[p].isRead
    /\ inv[p].cmd = "all"
    /\ config.MaxCmdOps = 2
    /\ inv[p].body = MalformedBody
    /\ loc[p].err.kind = "ServerError"

\* the invocation ended with its result: no error, no panic
Succeeded(p) == pc[p] = "returned" /\ loc[p].err.kind = "nil"

\* C7: an invocation that ends without success (any rejection, a parse,
\* decode, transformation, driver or conversion failure) has launched neither
\* UpdateLastConnected nor SendEvent, for every configuration and sendEvent.
C7_NoSideEffectOnFailure ==
  \A p \in Procs : Done(p) /\ ~Succeeded(p) => hist[p].launched = {}

\* C8: the profile cache's attribute map of every resource is what the
\* profile declares, before, during and after every invocation.
C8_DeclaredAttributesKept == cacheAttrs = DeclaredAttributes

\* C9: two concurrent invocations never access the same attribute map with
\* one of them writing it, and the requests every driver call gets carry the
\* raw query of the invocation that makes the call.
C9_NoSharedState ==
  /\ \A p, q \in Procs : \A r \in DOMAIN Resources : ~Conflict(p, q, r)
  /\ ~fatal
  /\ \A p \in Procs : \A k \in 1..Len(hist[p].calls) :
       \A j \in 1..Len(hist[p].calls[k].reqs) :
         LET a == hist[p].calls[k].reqs[j].Attributes
         IN URLRawQuery \in DOMAIN a => a[URLRawQuery] = inv[p].attributes

\* a text the Float32 or Float64 case cannot decode: a decimal number out of
\* the width's range, or no decimal number and no base64 text of enough bytes
FloatTextFails(kind, t) ==
  LET bitSize == IF kind = "Float32" THEN 32 ELSE 64
      pf == ParseFloat(t, bitSize)
      dec == DecodeString(t)
  IN \/ pf.res = "range"
     \/ pf.res = "syntax" /\ (~dec.ok \/ Len(dec.bytes) < bitSize \div 8)

\* C10: for Float32 and Float64, every text that cannot be decoded gets a
\* non-nil error and no Command Value.
C10_FloatFailureReturnsError ==
  cOut.done /\ cIn.kind \in {"Float32", "Float64"} /\ FloatTextFails(cIn.kind, cIn.text)
    => cOut.err.kind # "nil" /\ IsNilValue(cOut.result)

\* a text that is no decimal number and is the base64 of exactly as many
\* bytes as the kind is wide
FloatTextIsBase64(kind, t) ==
  LET bitSize == IF kind = "Float32" THEN 32 ELSE 64
      dec == DecodeString(t)
  IN /\ ParseFloat(t, bitSize).res = "syntax"
     /\ dec.ok
     /\ Len(dec.bytes) = bitSize \div 8

\* C11: for Float32 and Float64, a text that is no decimal number and is the
\* base64 of a big-endian float of the kind's width decodes to a Command Value
\* holding that float; when the bits are a NaN the decode returns an error
\* and no Command Value.
C11_Base64Fallback ==
  cOut.done /\ cIn.kind \in {"Float32", "Float64"} /\ FloatTextIsBase64(cIn.kind, cIn.text)
    => IF IsNaNBits(DecodeString(cIn.text).bytes)
       THEN cOut.err.kind # "nil" /\ IsNilValue(cOut.result)
       ELSE /\ cOut.err.kind = "nil"
            /\ cOut.result =
                 NewCommandValue("dr", cIn.kind, [bits |-> DecodeString(cIn.text).bytes])

IntegerKinds ==
  {"Uint8", "Uint16", "Uint32", "Uint64", "Int8", "Int16", "Int32", "Int64"}

\* the greatest value of each integer kind: 2^w - 1, or 2^(w-1) - 1
KindMax(kind) ==
  CASE kind = "Uint8" -> T_255
    [] kind = "Uint16" -> T_65535
    [] kind = "Uint32" -> T_4294967295
    [] kind = "Uint64" -> T_18446744073709551615
    [] kind = "Int8" -> T_127
    [] kind = "Int16" -> T_32767
    [] kind = "Int32" -> T_2147483647
    [] kind = "Int64" -> T_9223372036854775807

\* the magnitude of the least value of each integer kind: 0, or 2^(w-1)
KindMinMagnitude(kind) ==
  CASE kind = "Int8" -> T_128
    [] kind = "Int16" -> T_32768
    [] kind = "Int32" -> T_2147483648
    [] kind = "Int64" -> T_9223372036854775808
    [] OTHER -> << >>

\* decimal text of an integer: digits, with "-" before them for a negative one
IsIntegerText(t) ==
  LET digits == IF Negative(t) THEN Tail(t) ELSE t
  IN /\ digits # << >>
     /\ AllDigits(digits)
     /\ ~(Negative(t) /\ StripZeros(digits) = << >>)

\* the integer the text denotes
IntegerOfText(t) ==
  IntValue(Negative(t), StripZeros(IF Negative(t) THEN Tail(t) ELSE t))

InKindRange(kind, n) ==
  IF n.neg THEN ~NatLess(KindMinMagnitude(kind), n.mag)
  ELSE ~NatLess(KindMax(kind), n.mag)

\* C12: for every scalar integer kind and every integer n given as decimal
\* text, the decode succeeds exactly when n is in the kind's range; then the
\* Command Value has the declared kind and the value n; otherwise an error is
\* returned and no Command Value (n is never wrapped or clamped).
C12_IntegerRange ==
  cOut.done /\ cIn.kind \in IntegerKinds /\ IsIntegerText(cIn.text)
    => IF InKindRange(cIn.kind, IntegerOfText(cIn.text))
       THEN /\ cOut.err.kind = "nil"
            /\ cOut.result = NewCommandValue("dr", cIn.kind, IntegerOfText(cIn.text))
       ELSE /\ cOut.err.kind # "nil"
            /\ IsNilValue(cOut.result)

\* 128 was refused for Int8
C12_Witness ==
  /\ cOut.done
  /\ cIn.kind = "Int8"
  /\ cIn.text = T_128
  /\ cOut.err.kind = "ServerError"
  /\ IsNilValue(cOut.result)

\* the text a write has for a resource by the precedence body, operation
\* default, resource default (T_empty: none of the three has one)
TextByPrecedence(body, opDefault, name) ==
  IF name \in DOMAIN body THEN body[name]
  ELSE IF opDefault # T_empty THEN opDefault
  ELSE Resources[name].DefaultValue

HasSource(body, opDefault, name) ==
  \/ name \in DOMAIN body
  \/ opDefault # T_empty
  \/ Resources[name].DefaultValue # T_empty

\* a write of a single resource that gets as far as choosing the text
SingleWriteCase(p) ==
  /\ Eligible(p)
  /\ ~inv[p].isRead
  /\ inv[p].cmd \notin DOMAIN Commands
  /\ inv[p].cmd \in DOMAIN Resources
  /\ Resources[inv[p].cmd].ReadWrite # "R"
  /\ BodyUsable(p)

\* a composite write that gets as far as its Resource Operations
CompositeWriteCase(p) ==
  /\ Eligible(p)
  /\ ~inv[p].isRead
  /\ inv[p].cmd \in DOMAIN Commands
  /\ Commands[inv[p].cmd].ReadWrite # "R"
  /\ OperationCount(inv[p].cmd) <= config.MaxCmdOps
  /\ BodyUsable(p)

\* Resource Operation k is the first that has no text, and every one before
\* it is writable and passes
FirstWithoutSource(p, k) ==
  LET ops == Commands[inv[p].cmd].ResourceOperations
  IN /\ ops[k].DeviceResource \in DOMAIN Resources
     /\ Resources[ops[k].DeviceResource].ReadWrite # "R"
     /\ ~HasSource(inv[p].body.map, ops[k].DefaultValue, ops[k].DeviceResource)
     /\ \A j \in 1..(k - 1) :
          EntryPasses(p, j) /\ Resources[ops[j].DeviceResource].ReadWrite # "R"

\* C13: the text a write decodes for a resource is the body's entry when the
\* key is present, else the operation's non-empty default (composite write),
\* else the resource's non-empty default; when none exists the invocation
\* fails with ServerError and the driver is not called.
C13_ValuePrecedence ==
  \A p \in Procs :
    /\ SingleWriteCase(p) =>
         /\ \A k \in 1..Len(hist[p].decoded) :
              /\ hist[p].decoded[k].resource = inv[p].cmd
              /\ HasSource(inv[p].body.map, T_empty, inv[p].cmd)
              /\ hist[p].decoded[k].candidate =
                   TextByPrecedence(inv[p].body.map, T_empty, inv[p].cmd)
         /\ ~HasSource(inv[p].body.map, T_empty, inv[p].cmd) =>
              /\ hist[p].calls = << >>
              /\ (Done(p) => pc[p] = "returned" /\ loc[p].err.kind = "ServerError")
    /\ CompositeWriteCase(p) =>
         /\ \A k \in 1..Len(hist[p].decoded) :
              LET op == Commands[inv[p].cmd].ResourceOperations[k]
              IN /\ hist[p].decoded[k].resource = op.DeviceResource
                 /\ HasSource(inv[p].body.map, op.DefaultValue, op.DeviceResource)
                 /\ hist[p].decoded[k].candidate =
                      TextByPrecedence(inv[p].body.map, op.DefaultValue, op.DeviceResource)
         /\ \A k \in 1..OperationCount(inv[p].cmd) : FirstWithoutSource(p, k) =>
              /\ hist[p].calls = << >>
              /\ (Done(p) => pc[p] = "returned" /\ loc[p].err.kind = "ServerError")

\* a composite write whose body lacks "count" decoded the operation's own
\* default for it, not the resource's
C13_Witness ==
  \E p \in Procs :
    /\ Done(p)
    /\ CompositeWriteCase(p)
    /\ inv[p].cmd = "pair"
    /\ "count" \notin DOMAIN inv[p].body.map
    /\ Len(hist[p].decoded) >= 1
    /\ hist[p].decoded[1].candidate = T_5
    /\ Resources["count"].DefaultValue = T_7

\* Resource Operation k is declared, writable and has a text to write
EntrySelectable(p, k) ==
  LET op == Commands[inv[p].cmd].ResourceOperations[k]
  IN /\ op.DeviceResource \in DOMAIN Resources
     /\ Resources[op.DeviceResource].ReadWrite # "R"
     /\ HasSource(inv[p].body.map, op.DefaultValue, op.DeviceResource)

\* C14: in a composite write the text handed to the codec for a candidate c
\* is a key of the operation's mapping table whose entry is c when there is
\* one, and c itself when the table is empty or has no such entry; body and
\* default values are treated alike, and a missing match stops nothing: an
\* invocation that ends before decoding a selectable operation was stopped by
\* the decode of the operation before it.
C14_MappingResolver ==
  \A p \in Procs : CompositeWriteCase(p) =>
    /\ \A k \in 1..Len(hist[p].decoded) :
         LET M == Commands[inv[p].cmd].ResourceOperations[k].Mappings
             d == hist[p].decoded[k]
         IN IF \E key \in DOMAIN M : M[key] = d.candidate
            THEN d.text \in DOMAIN M /\ M[d.text] = d.candidate
            ELSE d.text = d.candidate
    /\ \A k \in 1..OperationCount(inv[p].cmd) :
         Done(p) /\ Len(hist[p].decoded) = k - 1 /\ EntrySelectable(p, k) =>
           /\ k > 1
           /\ LET d == hist[p].decoded[k - 1]
              IN createCommandValueFromDeviceResource(Resources[d.resource], d.text).err.kind # "nil"

\* a composite write took the resource's default "true" for "reset" and
\* handed the key "1" of the operation's table to the codec
C14_Witness ==
  \E p \in Procs :
    /\ Done(p)
    /\ CompositeWriteCase(p)
    /\ inv[p].cmd = "wo"
    /\ "reset" \notin DOMAIN inv[p].body.map
    /\ Len(hist[p].decoded) = 1
    /\ hist[p].decoded[1].candidate = T_true
    /\ hist[p].decoded[1].text = T_1
    /\ Len(hist[p].calls) = 1

\* the invocation has chosen its processor method
Resolved(p) == Checked(p) /\ pc[p] # "resolve"

\* position of the first lookup of name as a single resource made by the
\* invocation (0: none)
FirstResourceLookup(p, name) ==
  LET at == {k \in 1..Len(hist[p].log) :
               hist[p].log[k].ev = "DeviceResource" /\ hist[p].log[k].arg = name}
  IN IF at = {} THEN 0 ELSE CHOOSE k \in at : \A j \in at : k <= j

\* C15: the operation name is looked up as a composite command first and as
\* a single resource only when no such command exists; a name declared as
\* both takes the composite path; a name declared as neither fails with
\* EntityDoesNotExist, for reads and writes, without parsing the body or
\* calling the driver.
C15_TargetResolution ==
  \A p \in Procs : Eligible(p) /\ Resolved(p) =>
    LET name == inv[p].cmd
    IN /\ hist[p].log[1] = Event("DeviceCommand", name, name \in DOMAIN Commands)
       /\ name \in DOMAIN Commands =>
            /\ loc[p].path = (IF inv[p].isRead THEN "ReadDeviceCommand" ELSE "WriteDeviceCommand")
            /\ \A k \in 1..Len(hist[p].log) :
                 hist[p].log[k].ev = "DeviceCommand" => hist[p].log[k].ok
            /\ \A k \in 1..Len(hist[p].calls) :
                 Len(hist[p].calls[k].reqs) = OperationCount(name)
       /\ name \notin DOMAIN Commands =>
            /\ loc[p].path = (IF inv[p].isRead THEN "ReadDeviceResource" ELSE "WriteDeviceResource")
            /\ pc[p] # loc[p].path =>
                 /\ FirstResourceLookup(p, name) = 2
                 /\ hist[p].log[2].ok = (name \in DOMAIN Resources)
       /\ name \notin DOMAIN Commands /\ name \notin DOMAIN Resources =>
            /\ hist[p].calls = << >>
            /\ ~Logged(p, {"parseParams"})
            /\ Done(p) =>
                 /\ pc[p] = "returned"
                 /\ loc[p].err.kind = "EntityDoesNotExist"
                 /\ loc[p].res.nil

\* a write of "both", declared as a command and as a resource, reached the
\* driver through the composite path
C15_Witness ==
  \E p \in Procs :
    /\ Done(p)
    /\ Eligible(p)
    /\ ~inv[p].isRead
    /\ inv[p].cmd = "both"
    /\ inv[p].cmd \in DOMAIN Commands \cap DOMAIN Resources
    /\ loc[p].path = "WriteDeviceCommand"
    /\ Len(hist[p].calls) = 1

\* a write whose target exists and may be written
PermittedWrite(p) ==
  /\ Eligible(p)
  /\ ~inv[p].isRead
  /\ IF inv[p].cmd \in DOMAIN Commands
     THEN Commands[inv[p].cmd].ReadWrite # "R"
     ELSE inv[p].cmd \in DOMAIN Resources /\ Resources[inv[p].cmd].ReadWrite # "R"

\* every resource the write names has a declared default
AllDefaulted(name) ==
  IF name \in DOMAIN Commands
  THEN \A k \in 1..OperationCount(name) :
         LET op == Commands[name].ResourceOperations[k]
         IN /\ op.DeviceResource \in DOMAIN Resources
            /\ HasSource(NoParams, op.DefaultValue, op.DeviceResource)
  ELSE HasSource(NoParams, T_empty, name)

\* C16: a write, single or composite, of an existing and writable target
\* whose body is not a JSON object of strings or is an object without members
\* fails with ServerError; it never calls the driver, decodes nothing and is
\* never taken as a write of the defaults.
C16_UnusableBody ==
  \A p \in Procs : PermittedWrite(p) /\ ~BodyUsable(p) =>
    /\ hist[p].calls = << >>
    /\ hist[p].decoded = << >>
    /\ Done(p) =>
         /\ pc[p] = "returned"
         /\ loc[p].err.kind = "ServerError"
         /\ hist[p].launched = {}

\* a composite write with an empty object as body failed although every
\* Resource Operation has a default
C16_Witness ==
  \E p \in Procs :
    /\ Done(p)
    /\ PermittedWrite(p)
    /\ inv[p].cmd \in DOMAIN Commands
    /\ AllDefaulted(inv[p].cmd)
    /\ inv[p].body = ObjectBody(NoParams)
    /\ LoggedAs(p, "parseParams", "", FALSE)
    /\ loc[p].err.kind = "ServerError"

\* the main path has ended well and the deferred function has started what
\* the configuration and sendEvent ask for
MainPathSucceeded(p) ==
  pc[p] = "deferred" /\ loc[p].err.kind = "nil" /\ ~loc[p].panicking

OutcomeWellFormed(p) ==
  /\ loc[p].err.kind # "nil" => loc[p].res.nil /\ hist[p].launched = {}
  /\ loc[p].err.kind = "nil" /\ inv[p].isRead =>
       loc[p].res = [nil |-> FALSE, DeviceName |-> inv[p].device, SourceName |-> inv[p].cmd]
  /\ ~inv[p].isRead => loc[p].res.nil /\ "SendEvent" \notin hist[p].launched
  /\ "SendEvent" \in hist[p].launched => inv[p].sendEvent
  /\ "UpdateLastConnected" \in hist[p].launched <=>
       config.UpdateLastConnected /\ loc[p].err.kind = "nil" /\ Checked(p) /\ Eligible(p)

\* C18: every invocation ends with exactly one outcome, an error without an
\* event or a success; a successful read returns one converted event; a write
\* returns no event and starts no event publication whatever sendEvent is;
\* the timestamp update is started on success only, and only when
\* UpdateLastConnected is configured.
C18_ExactlyOneOutcome ==
  \A p \in Procs : Done(p) => pc[p] = "returned" /\ OutcomeWellFormed(p)

\* the same for the invocations that return
C18_ReturnedOutcome ==
  \A p \in Procs : pc[p] = "returned" => OutcomeWellFormed(p)

\* the attributes a request for resource name should carry in an invocation
\* with the raw query attributes
ExpectedAttributes(name, attributes) ==
  IF attributes # ""
  THEN SetKey(Resources[name].Attributes, URLRawQuery, attributes)
  ELSE Resources[name].Attributes

\* C19: after any sequence of invocations, every request handed to the driver
\* carries the resource's declared attributes plus, exactly when the current
\* invocation has a non-empty raw query, the reserved entry with that query;
\* a request of an invocation without raw query has no reserved entry,
\* whatever earlier invocations supplied.
C19_RequestAttributes ==
  \A p \in Procs :
    \A k \in 1..Len(hist[p].calls) :
      \A j \in 1..Len(hist[p].calls[k].reqs) :
        LET req == hist[p].calls[k].reqs[j]
        IN req.Attributes = ExpectedAttributes(req.DeviceResourceName, inv[p].attributes)

\* request i of a driver call is the one of Resource Operation i
RequestOfOperation(call, ops, i) ==
  /\ call.reqs[i].DeviceResourceName = ops[i].DeviceResource
  /\ ops[i].DeviceResource \in DOMAIN Resources
  /\ call.reqs[i].Type = Resources[ops[i].DeviceResource].ValueType

\* value i of a driver call is the one decoded for Resource Operation i; its
\* content is compared when no transformation is configured
ValueOfOperation(p, call, i) ==
  /\ ~IsNilValue(call.params[i])
  /\ call.params[i].DeviceResourceName = call.reqs[i].DeviceResourceName
  /\ call.params[i].Type = call.reqs[i].Type
  /\ hist[p].decoded[i].resource = call.reqs[i].DeviceResourceName
  /\ ~config.DataTransform =>
       call.params[i] =
         createCommandValueFromDeviceResource(Resources[hist[p].decoded[i].resource],
                                              hist[p].decoded[i].text).result

\* C20: whenever the driver is called for a composite command, the batch
\* follows the declared Resource Operations position by position: one request
\* per operation, request i naming operation i's resource with its declared
\* value kind, and for a write one Command Value per request, value i being
\* the value decoded for operation i with the name and kind of request i;
\* nothing is reordered, dropped or duplicated, whatever keys the body holds.
C20_PositionalBatch ==
  \A p \in Procs : inv[p].cmd \in DOMAIN Commands =>
    \A k \in 1..Len(hist[p].calls) :
      LET call == hist[p].calls[k]
          ops == Commands[inv[p].cmd].ResourceOperations
      IN /\ Len(hist[p].calls) = 1
         /\ Len(call.reqs) = Len(ops)
         /\ \A i \in 1..Len(ops) : RequestOfOperation(call, ops, i)
         /\ IF inv[p].isRead
            THEN call.params = << >>
            ELSE /\ Len(call.params) = Len(ops)
                 /\ Len(hist[p].decoded) = Len(ops)
                 /\ \A i \in 1..Len(ops) : ValueOfOperation(p, call, i)

\* a write of "pair" whose body holds "switch" and a key the command does not
\* name, and no "count", reached the driver with the two values in declared
\* order
C20_Witness ==
  \E p \in Procs :
    /\ Done(p)
    /\ ~inv[p].isRead
    /\ inv[p].cmd = "pair"
    /\ DOMAIN inv[p].body.map = {"switch", "reset"}
    /\ Len(hist[p].calls) = 1
    /\ Len(hist[p].calls[1].params) = 2
    /\ hist[p].calls[1].params[1].DeviceResourceName = "count"
    /\ hist[p].calls[1].params[2].DeviceResourceName = "switch"

\* the Resource Operations of a command whose resource the profile does not
\* declare
UndeclaredEntries(name) ==
  { k \in 1..OperationCount(name) :
      Commands[name].ResourceOperations[k].DeviceResource \notin DOMAIN Resources }

\* a composite command the direction allows, on an eligible device, with an
\* undeclared resource among its Resource Operations
UndeclaredEntryCase(p) == CompositeAllowed(p) /\ UndeclaredEntries(inv[p].cmd) # {}

\* a composite write reaches a ReadOnly entry before any undeclared one, and
\* nothing before that entry fails
ReadOnlyEntryFirst(p) ==
  /\ ~inv[p].isRead
  /\ OperationCount(inv[p].cmd) <= config.MaxCmdOps
  /\ BodyUsable(p)
  /\ \E j \in ReadOnlyEntries(inv[p].cmd) :
       /\ \A k \in ReadOnlyEntries(inv[p].cmd) \cup UndeclaredEntries(inv[p].cmd) : j <= k
       /\ \A k \in 1..(j - 1) : EntryPasses(p, k)

\* C21 as stated: such an invocation fails with ServerError wherever the
\* undeclared entry stands.
C21_Original ==
  \A p \in Procs : Done(p) /\ UndeclaredEntryCase(p) => loc[p].err.kind = "ServerError"

\* C21: a composite read or write of a permitted command with an undeclared
\* resource among its Resource Operations never calls the driver and returns
\* no event; it fails with ServerError, never EntityDoesNotExist, except that
\* a write which meets a ReadOnly resource at an earlier operation, with a
\* usable body and every operation before that one passing, fails with
\* NotAllowed.
C21_UndeclaredEntry ==
  \A p \in Procs : UndeclaredEntryCase(p) =>
    /\ hist[p].calls = << >>
    /\ loc[p].res.nil
    /\ Done(p) =>
         /\ pc[p] = "returned"
         /\ loc[p].err.kind = (IF ReadOnlyEntryFirst(p) THEN "NotAllowed" ELSE "ServerError")

\* a composite write found the resource of its second operation undeclared
C21_Witness ==
  \E p \in Procs :
    /\ Done(p)
    /\ UndeclaredEntryCase(p)
    /\ ~inv[p].isRead
    /\ inv[p].cmd = "ghostly"
    /\ LoggedAs(p, "DeviceResource", "ghost", FALSE)
    /\ Len(hist[p].decoded) = 1
    /\ loc[p].err.kind = "ServerError"

\* the calls of transformer.TransformWriteParameter the invocation has made,
\* in order
TransformCalls(p) ==
  SelectSeq(hist[p].log, LAMBDA e : e.ev = "TransformWriteParameter")

\* C22: the write transformation is applied to the decoded values exactly
\* when DataTransform is configured: with it, every value handed to the
\* driver has been transformed once, in order, and a transformation that
\* fails ends the write, single or composite, with ContractInvalid and
\* without a driver call; without it the transformation is never called and
\* no invocation fails with ContractInvalid. A read transforms nothing here.
C22_WriteTransformation ==
  \A p \in Procs :
    LET calls == TransformCalls(p)
    IN /\ ~config.DataTransform \/ inv[p].isRead =>
            calls = << >> /\ loc[p].err.kind # "ContractInvalid"
       /\ Len(calls) <= Len(hist[p].decoded)
       /\ \A k \in 1..Len(calls) :
            /\ calls[k].arg = hist[p].decoded[k].resource
            /\ k < Len(calls) => calls[k].ok
       /\ config.DataTransform =>
            \A c \in 1..Len(hist[p].calls) :
              /\ Len(calls) = Len(hist[p].calls[c].params)
              /\ \A k \in 1..Len(calls) :
                   calls[k].ok /\ calls[k].arg = hist[p].calls[c].params[k].DeviceResourceName
       /\ TransformFailed(p) =>
            /\ hist[p].calls = << >>
            /\ Done(p) => pc[p] = "returned" /\ loc[p].err.kind = "ContractInvalid"
       /\ loc[p].err.kind = "ContractInvalid" => TransformFailed(p)

\* a composite write whose first value was transformed and whose second
\* value's transformation failed
C22_Witness ==
  \E p \in Procs :
    /\ Done(p)
    /\ config.DataTransform
    /\ inv[p].cmd = "pair"
    /\ Len(TransformCalls(p)) = 2
    /\ TransformCalls(p)[1].ok
    /\ ~TransformCalls(p)[2].ok
    /\ loc[p].err.kind = "ContractInvalid"
    /\ hist[p].calls = << >>

\* the driver's answers to the invocation's calls, in order
DriverAnswers(p) == SelectSeq(hist[p].log, LAMBDA e : e.ev = "driver")

\* the number of requests of the invocation's one batch
BatchSize(p) ==
  IF inv[p].cmd \in DOMAIN Commands THEN OperationCount(inv[p].cmd) ELSE 1

\* C23: an invocation calls the driver at most once, and exactly once when
\* it returns success; a read calls HandleReadCommands only and a write
\* HandleWriteCommands only; a composite command goes out as one call with
\* the whole batch; a driver error is not retried and comes back to the
\* caller as ServerError.
C23_SingleDispatch ==
  \A p \in Procs :
    /\ Len(hist[p].calls) <= 1
    /\ Len(DriverAnswers(p)) = Len(hist[p].calls)
    /\ Succeeded(p) /\ Checked(p) =>
         Len(hist[p].calls) = 1 /\ DriverAnswers(p)[1].ok
    /\ \A k \in 1..Len(hist[p].calls) :
         /\ hist[p].calls[k].op =
              (IF inv[p].isRead THEN "HandleReadCommands" ELSE "HandleWriteCommands")
         /\ DriverAnswers(p)[k].arg = hist[p].calls[k].op
         /\ Len(hist[p].calls[k].reqs) = BatchSize(p)
         /\ ~DriverAnswers(p)[k].ok =>
              /\ loc[p].err.kind = "ServerError"
              /\ loc[p].res.nil
              /\ pc[p] \in {"defer", "deferred", "returned"}

\* a composite read whose one call of the driver, with the whole batch,
\* failed, has returned ServerError
C23_Witness ==
  \E p \in Procs :
    /\ pc[p] = "returned"
    /\ inv[p].isRead
    /\ inv[p].cmd = "all"
    /\ Len(hist[p].calls) = 1
    /\ Len(hist[p].calls[1].reqs) = 3
    /\ ~DriverAnswers(p)[1].ok
    /\ loc[p].err.kind = "ServerError"

\* the decode of text for resource name gives a value or an error, one of
\* the two and not both
ExactlyOne(name, text) ==
  LET r == createCommandValueFromDeviceResource(Resources[name], text)
  IN IsNilValue(r.result) = (r.err.kind # "nil")

\* C24: createCommandValueFromDeviceResource returns exactly one of a Command
\* Value and an error, so a write never keeps an absent value among its
\* decoded values, never reads a field of one and never ends in a panic:
\* every write ends by returning its outcome to the caller.
C24_NoAbsentValue ==
  \A p \in Procs : ~inv[p].isRead =>
    /\ \A k \in 1..Len(hist[p].decoded) :
         ExactlyOne(hist[p].decoded[k].resource, hist[p].decoded[k].text)
    /\ \A k \in 1..Len(loc[p].cvs) : ~IsNilValue(loc[p].cvs[k])
    /\ ~loc[p].panicking
    /\ pc[p] # "panicked"

====
